---- MODULE Spec2Model ----
(***************************************************************************)
(* PinAllWindows: the plan computer (core.js) and its identity and         *)
(* normalization helpers.                                                   *)
(*                                                                         *)
(* Strings are modelled as sequences of tokens: "https://a.test/x#s" is    *)
(* <<"https:", "//a.test", "/x", "#s">>, the empty string is <<>>.         *)
(* Concatenation is \o, so `origin:${u.origin}` is <<"origin:">> \o origin *)
(* and new URL(x) is a parse of the token sequence.                        *)
(***************************************************************************)
EXTENDS Integers, Sequences, FiniteSets, TLC

VARIABLES pinnedTabs, canonicalMap, plan, planState

\* the inputs and the results of canonicalKeyForUrl
VARIABLES keyUrlA, keyUrlB, keyA, keyB, keyState

planVars == <<pinnedTabs, canonicalMap, plan, planState>>

keyVars == <<keyUrlA, keyUrlB, keyA, keyB, keyState>>

\* the browser: the tabs of each window, the open windows, the two storage
\* keys, the timers set by scheduleReconcile, the pinned-tab-created events
\* not yet delivered
VARIABLES windowTabs, openWindows, storage, timers, createdEvents

\* the globals of the service worker
VARIABLES reconcileTimer, reconcileInFlight, reconcilePending, suppressEventsUntil

\* the asynchronous functions waiting on an API call, the user actions,
\* reconcile requests from outside and failing API calls the run still has,
\* the pass that ended in the last step, the last user action
VARIABLES tasks, budget, lastPass, userAction

loopVars ==
  <<windowTabs, openWindows, storage, timers, createdEvents, reconcileTimer,
    reconcileInFlight, reconcilePending, suppressEventsUntil, tasks, budget,
    lastPass, userAction>>

vars == <<pinnedTabs, canonicalMap, plan, planState, keyVars, loopVars>>

(***************************************************************************)
(* Bounds                                                                   *)
(***************************************************************************)
MaxTabs == 3

MaxCanon == 2

(***************************************************************************)
(* Strings                                                                  *)
(***************************************************************************)
EmptyString == <<>>

\* the JS value undefined (a missing property); never a string
Undefined == <<"<undefined>">>

Falsy(v) == v = EmptyString \/ v = Undefined

Schemes == {"https:", "http:", "chrome:"}

SpecialSchemes == {"https:", "http:"}

Hosts == {"//a.test", "//c.test", "//gemini.google.com", "//settings"}

Ports == {":443", ":80", ":8080"}

Paths == {"/", "/x", "/y"}

Queries == {"?q=1"}

Hashes == {"#", "#s"}

\* every token, in the order of the UTF-16 code units of its text
TokenOrder ==
  << "#", "#s", "/", "//a.test", "//c.test", "//gemini.google.com",
     "//settings", "/x", "/y", ":443", ":80", ":8080", "<undefined>",
     "?q=1", "about:", "blank", "chrome:", "garbage", "http:", "https:",
     "null", "origin:" >>

TokenRank(t) == CHOOSE i \in 1..Len(TokenOrder) : TokenOrder[i] = t

RECURSIVE StrLess(_, _)
\* a < b as JS compares strings (code unit by code unit)
StrLess(a, b) ==
  IF a = <<>> THEN b # <<>>
  ELSE IF b = <<>> THEN FALSE
  ELSE IF a[1] = b[1] THEN StrLess(Tail(a), Tail(b))
  ELSE TokenRank(a[1]) < TokenRank(b[1])

(***************************************************************************)
(* new URL(x)                                                               *)
(***************************************************************************)
NullUrl ==
  [ok |-> FALSE, protocol |-> "", host |-> "", port |-> "",
   pathname |-> "", search |-> "", hash |-> ""]

DefaultPort(protocol) ==
  IF protocol = "https:" THEN ":443"
  ELSE IF protocol = "http:" THEN ":80"
  ELSE ""

\* the token of s at position i when it is of class cls, else ""
TokenAt(s, i, cls) == IF i <= Len(s) /\ s[i] \in cls THEN s[i] ELSE ""

Skip(i, tok) == IF tok = "" THEN i ELSE i + 1

\* new URL(s): the parsed URL, or NullUrl where the constructor throws
NewURL(s) ==
  IF s = <<"about:", "blank">>
  THEN [ok |-> TRUE, protocol |-> "about:", host |-> "", port |-> "",
        pathname |-> "blank", search |-> "", hash |-> ""]
  ELSE IF Len(s) < 2 \/ s[1] \notin Schemes \/ s[2] \notin Hosts THEN NullUrl
  ELSE
    LET port == TokenAt(s, 3, Ports)
        i4 == Skip(3, port)
        path == TokenAt(s, i4, Paths)
        i5 == Skip(i4, path)
        search == TokenAt(s, i5, Queries)
        i6 == Skip(i5, search)
        hash == TokenAt(s, i6, Hashes)
        i7 == Skip(i6, hash)
    IN IF i7 <= Len(s) THEN NullUrl
       ELSE [ok |-> TRUE,
             protocol |-> s[1],
             host |-> s[2],
             port |-> IF port = DefaultPort(s[1]) THEN "" ELSE port,
             pathname |-> IF path = "" /\ s[1] \in SpecialSchemes
                          THEN "/" ELSE path,
             search |-> search,
             hash |-> IF hash = "#" THEN "" ELSE hash]

Opt(tok) == IF tok = "" THEN <<>> ELSE <<tok>>

\* u.toString()
UrlToString(u) ==
  <<u.protocol>> \o Opt(u.host) \o Opt(u.port) \o Opt(u.pathname)
    \o Opt(u.search) \o Opt(u.hash)

\* u.origin
UrlOrigin(u) ==
  IF u.protocol \in SpecialSchemes
  THEN <<u.protocol, u.host>> \o Opt(u.port)
  ELSE <<"null">>

(***************************************************************************)
(* core.js                                                                  *)
(***************************************************************************)
\* mutant: the pending URL is ignored
getTabUrlCommittedOnly(tab) ==
  IF ~Falsy(tab.url) THEN tab.url ELSE EmptyString

getTabUrl(tab) ==
  IF ~Falsy(tab.url) THEN tab.url
  ELSE IF ~Falsy(tab.pendingUrl) THEN tab.pendingUrl
  ELSE EmptyString

\* mutant: every parseable URL is syncable, whatever its scheme
isSyncableUrlAnyScheme(url) ==
  IF Falsy(url) THEN FALSE ELSE NewURL(url).ok

\* mutant: only https is syncable
isSyncableUrlHttpsOnly(url) ==
  IF Falsy(url) THEN FALSE
  ELSE LET u == NewURL(url)
       IN u.ok /\ u.protocol = "https:"

isSyncableUrl(url) ==
  IF Falsy(url) THEN FALSE
  ELSE LET u == NewURL(url)
       IN u.ok /\ (u.protocol = "http:" \/ u.protocol = "https:")

\* mutant: the fragment is kept
normalizeUrlKeepHash(url) ==
  LET u == NewURL(url)
  IN IF u.ok THEN UrlToString(u) ELSE url

normalizeUrl(url) ==
  LET u == NewURL(url)
  IN IF u.ok THEN UrlToString([u EXCEPT !.hash = ""]) ELSE url

parseUrl(url) == NewURL(url)

\* mutant: exact identity, the key is the normalized URL
canonicalKeyForUrlExact(url) == normalizeUrl(url)

canonicalKeyForUrl(url) ==
  LET normalized == normalizeUrl(url)
      u == parseUrl(normalized)
  IN IF ~u.ok THEN normalized ELSE <<"origin:">> \o UrlOrigin(u)

RECURSIVE InsertSorted(_, _)
InsertSorted(x, sorted) ==
  IF sorted = <<>> THEN <<x>>
  ELSE IF StrLess(x, Head(sorted)) THEN <<x>> \o sorted
  ELSE <<Head(sorted)>> \o InsertSorted(x, Tail(sorted))

\* mutant: the keys are left in insertion order
stableSortStringsUnsorted(xs) == xs

RECURSIVE stableSortStrings(_)
\* Array.from(xs).sort()
stableSortStrings(xs) ==
  IF xs = <<>> THEN <<>>
  ELSE InsertSorted(xs[Len(xs)], stableSortStrings(SubSeq(xs, 1, Len(xs) - 1)))

(***************************************************************************)
(* A JS Map is a sequence of entries in insertion order, keys distinct.    *)
(***************************************************************************)
MapHas(m, key) == \E i \in 1..Len(m) : m[i].key = key

MapIndex(m, key) == CHOOSE i \in 1..Len(m) : m[i].key = key

MapKeys(m) == [i \in 1..Len(m) |-> m[i].key]

\* canonicalMap.get(key)
CanonGet(m, key) == m[MapIndex(m, key)].url

\* existingByKey.get(key) || []
ExistingGet(m, key) == IF MapHas(m, key) THEN m[MapIndex(m, key)].list ELSE <<>>

\* list.push(item); existingByKey.set(key, list)
ExistingPush(m, key, item) ==
  IF MapHas(m, key)
  THEN [m EXCEPT ![MapIndex(m, key)].list = Append(@, item)]
  ELSE Append(m, [key |-> key, list |-> <<item>>])

RECURSIVE GroupByKey(_, _)
\* the first loop of computePinnedWindowPlan, from the tabs already grouped
GroupByKey(tabs, acc) ==
  IF tabs = <<>> THEN acc
  ELSE LET t == Head(tabs)
           rawUrl == getTabUrl(t)
           normalized == normalizeUrl(rawUrl)
           key == canonicalKeyForUrl(normalized)
       IN IF ~isSyncableUrl(rawUrl) THEN GroupByKey(Tail(tabs), acc)
          ELSE GroupByKey(Tail(tabs),
                          ExistingPush(acc, key, [id |-> t.id, url |-> normalized]))

Ids(list) == [i \in 1..Len(list) |-> list[i].id]

\* mutant: the last instance is kept instead of the first
DuplicateIdsKeepLast(existing) ==
  IF Len(existing) > 1 THEN Ids(SubSeq(existing, 1, Len(existing) - 1)) ELSE <<>>

\* mutant: the kept instance is removed with its duplicates
DuplicateIdsAll(existing) == IF Len(existing) > 1 THEN Ids(existing) ELSE <<>>

\* existing.slice(1).map((x) => x.id)
DuplicateIds(existing) == IF Len(existing) > 1 THEN Ids(Tail(existing)) ELSE <<>>

RECURSIVE CreateListAlways(_, _, _)
\* mutant: a key is created whether or not the window already has it
CreateListAlways(keys, existingByKey, canon) ==
  IF keys = <<>> THEN <<>>
  ELSE <<[key |-> Head(keys), url |-> CanonGet(canon, Head(keys))]>>
         \o CreateListAlways(Tail(keys), existingByKey, canon)

RECURSIVE CreateList(_, _, _)
CreateList(keys, existingByKey, canon) ==
  IF keys = <<>> THEN <<>>
  ELSE LET key == Head(keys)
           rest == CreateList(Tail(keys), existingByKey, canon)
       IN IF Len(ExistingGet(existingByKey, key)) = 0
          THEN <<[key |-> key, url |-> CanonGet(canon, key)]>> \o rest
          ELSE rest

RECURSIVE DuplicateRemovals(_, _)
DuplicateRemovals(keys, existingByKey) ==
  IF keys = <<>> THEN <<>>
  ELSE DuplicateIds(ExistingGet(existingByKey, Head(keys)))
         \o DuplicateRemovals(Tail(keys), existingByKey)

RECURSIVE StaleRemovalsFirstOnly(_, _)
\* mutant: only the first instance of a non-canonical key is removed
StaleRemovalsFirstOnly(entries, canon) ==
  IF entries = <<>> THEN <<>>
  ELSE LET e == Head(entries)
       IN (IF MapHas(canon, e.key) THEN <<>> ELSE <<e.list[1].id>>)
            \o StaleRemovalsFirstOnly(Tail(entries), canon)

RECURSIVE StaleRemovalsAll(_, _)
\* mutant: the canonicalMap.has(key) test is dropped
StaleRemovalsAll(entries, canon) ==
  IF entries = <<>> THEN <<>>
  ELSE Ids(Head(entries).list) \o StaleRemovalsAll(Tail(entries), canon)

RECURSIVE StaleRemovals(_, _)
\* the last loop: pinned tabs that are not part of canonical keys
StaleRemovals(entries, canon) ==
  IF entries = <<>> THEN <<>>
  ELSE LET e == Head(entries)
       IN (IF MapHas(canon, e.key) THEN <<>> ELSE Ids(e.list))
            \o StaleRemovals(Tail(entries), canon)

RECURSIVE KeepExistingUpdatesNavigate(_, _, _)
\* mutant: the kept tab is navigated to the canonical URL when it differs
KeepExistingUpdatesNavigate(keys, existingByKey, canon) ==
  IF keys = <<>> THEN <<>>
  ELSE LET key == Head(keys)
           existing == ExistingGet(existingByKey, key)
           rest == KeepExistingUpdatesNavigate(Tail(keys), existingByKey, canon)
       IN IF Len(existing) > 0 /\ existing[1].url # CanonGet(canon, key)
          THEN <<[tabId |-> existing[1].id, url |-> CanonGet(canon, key)]>> \o rest
          ELSE rest

\* keep-existing mode: the kept tab is never navigated
KeepExistingUpdates(keys, existingByKey, canon) == <<>>

computePinnedWindowPlan(tabs, canon) ==
  LET existingByKey == GroupByKey(tabs, <<>>)
      desiredKeys == stableSortStrings(MapKeys(canon))
  IN [create |-> CreateList(desiredKeys, existingByKey, canon),
      update |-> KeepExistingUpdates(desiredKeys, existingByKey, canon),
      removeTabIds |-> DuplicateRemovals(desiredKeys, existingByKey)
                         \o StaleRemovals(existingByKey, canon)]

(***************************************************************************)
(* The replace-with-newest (Gemini) variant of core.js                     *)
(***************************************************************************)
GEMINI_HOST == "//gemini.google.com"

canonicalKeyForUrlGemini(url) ==
  LET normalized == normalizeUrl(url)
      u == parseUrl(normalized)
  IN IF ~u.ok THEN normalized
     ELSE IF u.host = GEMINI_HOST THEN <<"origin:">> \o UrlOrigin(u)
     ELSE normalized

RECURSIVE GroupByKeyGemini(_, _)
GroupByKeyGemini(tabs, acc) ==
  IF tabs = <<>> THEN acc
  ELSE LET t == Head(tabs)
           rawUrl == getTabUrl(t)
           normalized == normalizeUrl(rawUrl)
           key == canonicalKeyForUrlGemini(normalized)
       IN IF ~isSyncableUrl(rawUrl) THEN GroupByKeyGemini(Tail(tabs), acc)
          ELSE GroupByKeyGemini(Tail(tabs),
                                ExistingPush(acc, key, [id |-> t.id, url |-> normalized]))

RECURSIVE ReplaceUpdates(_, _, _)
\* if the kept tab has a different URL than the canonical URL, update it
ReplaceUpdates(keys, existingByKey, canon) ==
  IF keys = <<>> THEN <<>>
  ELSE LET key == Head(keys)
           targetUrl == CanonGet(canon, key)
           existing == ExistingGet(existingByKey, key)
           rest == ReplaceUpdates(Tail(keys), existingByKey, canon)
       IN IF Len(existing) > 0 /\ existing[1].url # targetUrl
          THEN <<[tabId |-> existing[1].id, url |-> targetUrl]>> \o rest
          ELSE rest

computePinnedWindowPlanReplace(tabs, canon) ==
  LET existingByKey == GroupByKeyGemini(tabs, <<>>)
      desiredKeys == stableSortStrings(MapKeys(canon))
  IN [create |-> CreateList(desiredKeys, existingByKey, canon),
      update |-> ReplaceUpdates(desiredKeys, existingByKey, canon),
      removeTabIds |-> DuplicateRemovals(desiredKeys, existingByKey)
                         \o StaleRemovals(existingByKey, canon)]

(***************************************************************************)
(* Inputs of the plan computer                                              *)
(***************************************************************************)
UrlATestRoot == <<"https:", "//a.test", "/">>

UrlATestXHash == <<"https:", "//a.test", "/x", "#s">>

UrlATestX == <<"https:", "//a.test", "/x">>

UrlGeminiX == <<"https:", "//gemini.google.com", "/x">>

UrlGeminiY == <<"https:", "//gemini.google.com", "/y">>

UrlCTestRoot == <<"https:", "//c.test", "/">>

UrlChrome == <<"chrome:", "//settings">>

UrlGarbage == <<"garbage">>

KeyATest == <<"origin:", "https:", "//a.test">>

KeyGemini == <<"origin:", "https:", "//gemini.google.com">>

KeyCTest == <<"origin:", "https:", "//c.test">>

\* the (url, pendingUrl) pairs a pinned tab is drawn from
TabShapes ==
  { [url |-> UrlATestXHash, pendingUrl |-> Undefined],
    [url |-> UrlGeminiX, pendingUrl |-> Undefined],
    [url |-> EmptyString, pendingUrl |-> UrlATestX],
    [url |-> UrlChrome, pendingUrl |-> UrlATestRoot],
    [url |-> Undefined, pendingUrl |-> Undefined],
    [url |-> UrlGarbage, pendingUrl |-> Undefined] }

\* the entries a canonical map is drawn from
CanonEntries ==
  { [key |-> KeyATest, url |-> UrlATestRoot],
    [key |-> KeyGemini, url |-> UrlGeminiY],
    [key |-> UrlATestX, url |-> UrlATestX],
    [key |-> KeyCTest, url |-> UrlCTestRoot] }

\* tab ids are unique and not in input order
TabIdAt(i) == ((2 * i) % (2 * MaxTabs + 3)) + 1

DistinctKeys(m) == \A i, j \in 1..Len(m) : m[i].key = m[j].key => i = j

CanonMaps ==
  { m \in UNION { [1..n -> CanonEntries] : n \in 0..MaxCanon } : DistinctKeys(m) }

TabLists ==
  { [i \in 1..Len(f) |-> [id |-> TabIdAt(i), url |-> f[i].url,
                          pendingUrl |-> f[i].pendingUrl]] :
      f \in UNION { [1..n -> TabShapes] : n \in 0..MaxTabs } }

NoPlan == [create |-> <<>>, update |-> <<>>, removeTabIds |-> <<>>]

\* the identity component is not in use
KeyIdle ==
  /\ keyUrlA = EmptyString
  /\ keyUrlB = EmptyString
  /\ keyA = EmptyString
  /\ keyB = EmptyString
  /\ keyState = "idle"

\* the plan computer is not in use
PlanIdle ==
  /\ pinnedTabs = <<>>
  /\ canonicalMap = <<>>
  /\ plan = NoPlan
  /\ planState = "idle"

WindowIds == {1, 2}

NoWork == [mutations |-> 0, wins |-> 0]

\* no response was sent to a requester
NoResponse == [sent |-> FALSE, ok |-> FALSE]

NoPass ==
  [seq |-> 0, reason |-> "", pc |-> "", failed |-> FALSE, arrived |-> 0,
   followUp |-> FALSE, clean |-> FALSE, mutFailed |-> FALSE, left |-> NoWork,
   planned |-> 0, issued |-> 0, enumerated |-> 0, queried |-> 0, map |-> <<>>,
   timers |-> {}, response |-> NoResponse]

\* the user has done nothing yet; closesOnly: every action of the user so
\* far closed a tab or a window, or opened a window
NoAction ==
  [kind |-> "none", key |-> <<>>, syncable |-> FALSE, ignored |-> FALSE,
   pinned |-> FALSE, closesOnly |-> TRUE]

\* the service worker is not in use
LoopIdle ==
  /\ windowTabs = [w \in WindowIds |-> <<>>]
  /\ openWindows = {}
  /\ storage = [cur |-> <<>>, old |-> <<>>, used |-> FALSE]
  /\ timers = {}
  /\ createdEvents = 0
  /\ reconcileTimer = 0
  /\ reconcileInFlight = FALSE
  /\ reconcilePending = FALSE
  /\ suppressEventsUntil = 0
  /\ tasks = {}
  /\ budget = [events |-> 0, requests |-> 0, failures |-> 0, dropBuild |-> FALSE]
  /\ lastPass = NoPass
  /\ userAction = NoAction

(***************************************************************************)
(* Specification of the plan computer                                       *)
(***************************************************************************)
Init ==
  /\ pinnedTabs \in TabLists
  /\ canonicalMap \in CanonMaps
  /\ plan = NoPlan
  /\ planState = "input"
  /\ KeyIdle
  /\ LoopIdle

\* core.js computePinnedWindowPlan (keep-existing)
ComputePlan ==
  /\ planState = "input"
  /\ plan' = computePinnedWindowPlan(pinnedTabs, canonicalMap)
  /\ planState' = "keep"
  /\ UNCHANGED <<pinnedTabs, canonicalMap>>
  /\ UNCHANGED <<keyVars, loopVars>>

\* the replace-with-newest variant of computePinnedWindowPlan
ComputePlanReplace ==
  /\ planState = "input"
  /\ plan' = computePinnedWindowPlanReplace(pinnedTabs, canonicalMap)
  /\ planState' = "replace"
  /\ UNCHANGED <<pinnedTabs, canonicalMap>>
  /\ UNCHANGED <<keyVars, loopVars>>

Next == ComputePlan \/ ComputePlanReplace

Spec == Init /\ [][Next]_vars

(***************************************************************************)
(* Specification of the identity component: canonicalKeyForUrl applied to  *)
(* two raw URLs                                                             *)
(***************************************************************************)
KeySchemes == {"https:", "http:"}

KeyHosts == {"//a.test", "//gemini.google.com"}

KeyPorts == {"", ":443", ":8080"}

KeyPaths == {"", "/x"}

KeyQueries == {"", "?q=1"}

KeyHashes == {"", "#s"}

\* the raw strings canonicalKeyForUrl is applied to
KeyUrls ==
  { <<sc, h>> \o Opt(po) \o Opt(pa) \o Opt(q) \o Opt(f) :
      sc \in KeySchemes, h \in KeyHosts, po \in KeyPorts, pa \in KeyPaths,
      q \in KeyQueries, f \in KeyHashes }
  \cup { <<"about:", "blank">>, UrlChrome, UrlGarbage, EmptyString, Undefined }

InitKey ==
  /\ keyUrlA \in KeyUrls
  /\ keyUrlB \in KeyUrls
  /\ keyA = EmptyString
  /\ keyB = EmptyString
  /\ keyState = "input"
  /\ PlanIdle
  /\ LoopIdle

\* core.js canonicalKeyForUrl (origin-level for all sites)
ComputeKey ==
  /\ keyState = "input"
  /\ keyA' = canonicalKeyForUrl(keyUrlA)
  /\ keyB' = canonicalKeyForUrl(keyUrlB)
  /\ keyState' = "origin"
  /\ UNCHANGED <<keyUrlA, keyUrlB>>
  /\ UNCHANGED <<planVars, loopVars>>

\* the Gemini variant of canonicalKeyForUrl
ComputeKeyGemini ==
  /\ keyState = "input"
  /\ keyA' = canonicalKeyForUrlGemini(keyUrlA)
  /\ keyB' = canonicalKeyForUrlGemini(keyUrlB)
  /\ keyState' = "gemini"
  /\ UNCHANGED <<keyUrlA, keyUrlB>>
  /\ UNCHANGED <<planVars, loopVars>>

\* core.js normalizeUrl, applied to the raw strings
ComputeNormalize ==
  /\ keyState = "input"
  /\ keyA' = normalizeUrl(keyUrlA)
  /\ keyB' = normalizeUrl(keyUrlB)
  /\ keyState' = "normalized"
  /\ UNCHANGED <<keyUrlA, keyUrlB>>
  /\ UNCHANGED <<planVars, loopVars>>

\* core.js normalizeUrl, applied to its own results
ComputeNormalizeAgain ==
  /\ keyState = "normalized"
  /\ keyA' = normalizeUrl(keyA)
  /\ keyB' = normalizeUrl(keyB)
  /\ keyState' = "normalizedTwice"
  /\ UNCHANGED <<keyUrlA, keyUrlB>>
  /\ UNCHANGED <<planVars, loopVars>>

\* core.js isSyncableUrl, applied to the raw strings
ComputeSyncable ==
  /\ keyState = "input"
  /\ keyA' = isSyncableUrl(keyUrlA)
  /\ keyB' = isSyncableUrl(keyUrlB)
  /\ keyState' = "syncable"
  /\ UNCHANGED <<keyUrlA, keyUrlB>>
  /\ UNCHANGED <<planVars, loopVars>>

NextKey ==
  \/ ComputeSyncable
  \/ ComputeKey
  \/ ComputeKeyGemini
  \/ ComputeNormalize
  \/ ComputeNormalizeAgain

SpecKey == InitKey /\ [][NextKey]_vars

(***************************************************************************)
(* The service worker: the build that keeps the existing pinned tab, with  *)
(* the pending flag, the unpin confirmation and the storage migration      *)
(***************************************************************************)
\* the user actions (pin, unpin, new window) of a run
MaxEvents == 1

\* the reconcile requests from outside (manual request, install, browser
\* start-up) of a run
MaxRequests == 3

\* the API calls that fail in a run
MaxFailures == 1

\* the pinned-tab-created events that wait for delivery (more are dropped)
MaxCreatedEvents == 1

MUTATION_SUPPRESS_MS == 1500

\* the outcomes an API call is drawn from: TRUE is a rejected call
FailChoices == IF budget.failures > 0 THEN BOOLEAN ELSE {FALSE}

\* a run has user actions next to one request from outside, or requests
\* from outside and failing API calls
LoopBudgets ==
  { [events |-> MaxEvents, requests |-> 1, failures |-> 0, dropBuild |-> FALSE],
    [events |-> MaxEvents + 1, requests |-> 0, failures |-> 0, dropBuild |-> FALSE],
    [events |-> 0, requests |-> MaxRequests, failures |-> MaxFailures,
      dropBuild |-> FALSE] }

Spend(fail) == IF fail THEN 1 ELSE 0

\* mutant: the suppression window is not opened
suppressEventsSkipped == suppressEventsUntil

\* suppressEvents(): suppressEventsUntil = nowMs() + MUTATION_SUPPRESS_MS,
\* as the time left from now
suppressEvents == MUTATION_SUPPRESS_MS

\* mutant: the handlers do not test the suppression window
eventsSuppressedNever == FALSE

\* time is kept relative to nowMs(): suppressEventsUntil holds the time
\* left until the suppression window closes
eventsSuppressed == 0 < suppressEventsUntil

NoTab == [id |-> 0, url |-> EmptyString, pendingUrl |-> Undefined, pinned |-> FALSE]

\* an asynchronous function at its first API call
NewTask(kind, reason, tab) ==
  [kind |-> kind, reason |-> reason, n |-> 0, pc |-> "start", err |-> FALSE,
   map |-> <<>>, old |-> <<>>, wins |-> <<>>, windowId |-> 0,
   create |-> <<>>, remove |-> <<>>, tab |-> tab,
   arrived |-> 0, clean |-> TRUE, mutFailed |-> FALSE, left |-> NoWork,
   planned |-> 0, issued |-> 0,
   enumerated |-> 0, queried |-> 0]

Passes == {t \in tasks : t.kind = "pass"}

Handlers == tasks \ Passes

\* a pass that starts while a pin or unpin handler is at work does not run
\* free of user actions
NewPass(reason) ==
  [NewTask("pass", reason, NoTab) EXCEPT !.clean = (Handlers = {})]

\* a user action reaches the passes in flight
Dirty(ts) ==
  {IF t.kind = "pass" THEN [t EXCEPT !.clean = FALSE] ELSE t : t \in ts}

RECURSIVE SortedSeq(_)
SortedSeq(S) ==
  IF S = {} THEN <<>>
  ELSE LET m == CHOOSE x \in S : \A y \in S : x <= y
       IN <<m>> \o SortedSeq(S \ {m})

RECURSIVE TabsOf(_)
\* the tabs of the windows ws, window by window
TabsOf(ws) ==
  IF ws = <<>> THEN <<>> ELSE windowTabs[Head(ws)] \o TabsOf(Tail(ws))

PinnedOnly(ts) == SelectSeq(ts, LAMBDA t : t.pinned)

\* tabs.filter((t) => t.pinned) as the plan computer reads it
PlanTabs(ts) ==
  LET ps == PinnedOnly(ts)
  IN [i \in 1..Len(ps) |-> [id |-> ps[i].id, url |-> ps[i].url,
                            pendingUrl |-> ps[i].pendingUrl]]

RECURSIVE SeedMapLast(_, _)
\* mutant: a later pinned tab of a key replaces the seed of the key
SeedMapLast(pinned, map) ==
  IF pinned = <<>> THEN map
  ELSE LET raw == getTabUrl(Head(pinned))
           url == normalizeUrl(raw)
           key == canonicalKeyForUrl(url)
       IN IF ~isSyncableUrl(raw) THEN SeedMapLast(Tail(pinned), map)
          ELSE SeedMapLast(Tail(pinned),
                 Append(SelectSeq(map, LAMBDA e : e.key # key),
                        [key |-> key, url |-> url]))

RECURSIVE SeedMap(_, _)
\* the loop of ensureCanonicalInitialized: the first seen URL of each key
SeedMap(pinned, map) ==
  IF pinned = <<>> THEN map
  ELSE LET raw == getTabUrl(Head(pinned))
           url == normalizeUrl(raw)
           key == canonicalKeyForUrl(url)
       IN IF ~isSyncableUrl(raw) THEN SeedMap(Tail(pinned), map)
          ELSE IF MapHas(map, key) THEN SeedMap(Tail(pinned), map)
          ELSE SeedMap(Tail(pinned), Append(map, [key |-> key, url |-> url]))

\* mutant: canonical.set(key, url) whether or not the key is present
MapSetAlways(m, key, url) ==
  IF MapHas(m, key)
  THEN [i \in 1..Len(m) |-> IF m[i].key = key THEN [key |-> key, url |-> url]
                            ELSE m[i]]
  ELSE Append(m, [key |-> key, url |-> url])

\* if (!canonical.has(key)) canonical.set(key, url)
MapSetIfAbsent(m, key, url) ==
  IF MapHas(m, key) THEN m ELSE Append(m, [key |-> key, url |-> url])

\* mutant: the delete drops every entry
MapDeleteAll(m, key) == <<>>

\* latestCanonical.delete(latestKey)
MapDelete(m, key) == SelectSeq(m, LAMBDA e : e.key # key)

\* the ids of the tabs that exist or that a waiting function still names
UsedTabIds ==
  UNION {{windowTabs[w][i].id : i \in 1..Len(windowTabs[w])} : w \in WindowIds}
    \cup UNION {{t.remove[i] : i \in 1..Len(t.remove)} : t \in tasks}
    \cup {t.tab.id : t \in tasks}

\* the id of a new tab: an id no tab has and no waiting function names
FreshTabId ==
  CHOOSE i \in 1..Cardinality(UsedTabIds) + 1 :
    i \notin UsedTabIds /\ \A j \in 1..i - 1 : j \in UsedTabIds

\* chrome.tabs.create({windowId, url, pinned: true, active: false}): the new
\* tab is at the end of the window, its navigation in flight
TabsAfterCreate(windowId, url) ==
  [windowTabs EXCEPT ![windowId] =
     Append(@, [id |-> FreshTabId, url |-> EmptyString, pendingUrl |-> url,
                pinned |-> TRUE])]

InSeq(x, seq) == \E i \in 1..Len(seq) : seq[i] = x

\* chrome.tabs.remove(tabIds)
TabsAfterRemove(tabIds) ==
  [w \in WindowIds |-> SelectSeq(windowTabs[w], LAMBDA t : ~InSeq(t.id, tabIds))]

\* setCanonicalMap(map): chrome.storage.local.set of STORAGE_KEY; used
\* records that the key has held a non-empty mapping at some time
setCanonicalMap(map) ==
  [storage EXCEPT !.cur = map, !.used = @ \/ map # <<>>]

\* chrome.storage.local.get([STORAGE_KEY, STORAGE_KEY_OLD]), issued
StorageGet(t, fail) ==
  [t EXCEPT !.pc = "get", !.err = fail,
            !.map = IF fail THEN <<>> ELSE storage.cur,
            !.old = IF fail THEN <<>> ELSE storage.old]

\* mutant: the timer that is replaced is left running
clearTimeoutDropped(ts, id) == ts

\* clearTimeout(reconcileTimer)
clearTimeout(ts, id) == {tm \in ts : tm.id # id}

FreshTimerId(ts) ==
  CHOOSE i \in 1..Cardinality(ts) + 1 :
    (\A tm \in ts : tm.id # i)
      /\ \A j \in 1..i - 1 : \E tm \in ts : tm.id = j

Min(a, b) == IF a < b THEN a ELSE b

\* the delay of the timer that a call of scheduleReconcile replaces, -1
\* when there is none
DelayOf(ts, id) ==
  IF \E tm \in ts : tm.id = id THEN (CHOOSE tm \in ts : tm.id = id).delay ELSE -1

\* the calls of scheduleReconcile since a timer last fired (2 stands for 2
\* or more)
BurstAfter(ts, id) ==
  IF \E tm \in ts : tm.id = id
  THEN Min((CHOOSE tm \in ts : tm.id = id).burst + 1, 2)
  ELSE 1

\* scheduleReconcile(delayMs): reconcileTimer = 0 is null
scheduleReconcile(delayMs) ==
  LET cleared == IF reconcileTimer # 0 THEN clearTimeout(timers, reconcileTimer)
                 ELSE timers
      id == FreshTimerId(cleared)
  IN /\ timers' = cleared \cup {[id |-> id, delay |-> delayMs,
                                  burst |-> BurstAfter(timers, reconcileTimer),
                                  replaced |-> DelayOf(timers, reconcileTimer)]}
     /\ reconcileTimer' = id

\* mutant: every call is taken for a call made during a pass
PassRunningAlways(inFlight) == TRUE

\* mutant: the in-flight flag is not tested
PassRunningNever(inFlight) == FALSE

\* if (reconcileInFlight)
PassRunning(inFlight) == inFlight

\* mutant: a request made during a pass is not recorded
PendingAfterRequestDropped(pending) == pending

\* reconcilePending = true
PendingAfterRequest(pending) == TRUE

\* the build that is run: the variant of the service worker without the
\* pending flag leaves a call made during a pass without effect
\* (if (reconcileInFlight) return;)
DropBuild == budget.dropBuild

\* reconcileAllWindows(reason) up to its first API call; t.arrived counts
\* the requests made during a pass (2 stands for 2 or more)
reconcileAllWindows(reason, fail) ==
  IF PassRunning(reconcileInFlight)
  THEN /\ ~fail
       /\ reconcilePending' = IF DropBuild THEN reconcilePending
                             ELSE PendingAfterRequest(reconcilePending)
       /\ tasks' = {IF t.kind = "pass" THEN [t EXCEPT !.arrived = Min(@ + 1, 2)]
                    ELSE t : t \in tasks}
       /\ UNCHANGED reconcileInFlight
  ELSE /\ reconcileInFlight' = TRUE
       /\ tasks' = tasks \cup {StorageGet(NewPass(reason), fail)}
       /\ UNCHANGED reconcilePending

\* mutant: a failed create or remove ends the pass
AfterMutationFailureAbort(t, left) ==
  [t EXCEPT !.err = TRUE, !.mutFailed = TRUE,
            !.left = IF t.mutFailed THEN @ ELSE left]

\* catch (e) { console.warn(...) } around one create or one remove
\* left is the work the pass still had when its first mutation failed
AfterMutationFailure(t, left) ==
  [t EXCEPT !.mutFailed = TRUE, !.left = IF t.mutFailed THEN @ ELSE left]

\* the promise of reconcileAllWindows(reason): the catch block swallows
\* every error of the pass, so the promise is never rejected
PassRejected(t) == FALSE

\* reconcileAllWindows("manual").then(() => sendResponse({ ok: true })):
\* there is no handler for a rejection
sendResponse(t) ==
  IF t.reason = "manual" /\ ~PassRejected(t)
  THEN [sent |-> TRUE, ok |-> TRUE]
  ELSE NoResponse

\* what is kept of a pass when it ends
PassSummary(t) ==
  [seq |-> 1, reason |-> t.reason, pc |-> t.pc, failed |-> t.err,
   arrived |-> t.arrived, followUp |-> reconcilePending, clean |-> t.clean,
   mutFailed |-> t.mutFailed, left |-> t.left, planned |-> t.planned,
   issued |-> t.issued, enumerated |-> t.enumerated, queried |-> t.queried,
   map |-> t.map, timers |-> timers, response |-> sendResponse(t)]

\* mutant: the flag is cleared at the end of the try block, not in finally
InFlightAfterPassNoFinally(t) == t.err

\* finally { reconcileInFlight = false; ... }
InFlightAfterPass(t) == FALSE

\* the catch and the finally block of reconcileAllWindows, the follow-up
\* call reconcileAllWindows("pending") included
Finally(t, fail) ==
  LET inFlight == InFlightAfterPass(t)
      followUp == reconcilePending /\ ~PassRunning(inFlight)
  IN /\ fail => followUp
     /\ reconcileInFlight' = (inFlight \/ followUp)
     /\ reconcilePending' = (reconcilePending /\ PassRunning(inFlight)
                               /\ PendingAfterRequest(FALSE))
     /\ tasks' = (tasks \ {t})
          \cup (IF followUp THEN {StorageGet(NewPass("pending"), fail)} ELSE {})
     /\ lastPass' = PassSummary(t)
     /\ UNCHANGED <<windowTabs, suppressEventsUntil, createdEvents, storage>>

\* reconcileWindow with the result of chrome.tabs.query({windowId}): the
\* plan of the window is kept until its mutations are issued
Queried(t, p) ==
  [t EXCEPT !.create = p.create, !.remove = p.removeTabIds,
            !.queried = @ + 1,
            !.planned = @ + Len(p.create)
                           + (IF p.removeTabIds # <<>> THEN 1 ELSE 0)]

\* mutant: each window is reconciled against the mapping in storage at
\* the time of its query
PassCanonicalMapLatest(t) == storage.cur

\* reconcileWindow(w.id, canonicalMap): the mapping read at the start of
\* the pass is handed to every window
PassCanonicalMap(t) == t.map

\* for (const w of wins): reconcileWindow up to chrome.tabs.query({windowId})
NextWindow(t, fail) ==
  IF t.wins = <<>> THEN Finally(t, fail)
  ELSE /\ tasks' = (tasks \ {t}) \cup
            {IF fail
             THEN [t EXCEPT !.pc = "query", !.windowId = Head(t.wins),
                            !.wins = Tail(@), !.err = TRUE]
             ELSE Queried([t EXCEPT !.pc = "query", !.windowId = Head(t.wins),
                                    !.wins = Tail(@)],
                          computePinnedWindowPlan(
                            PlanTabs(windowTabs[Head(t.wins)]),
                            PassCanonicalMap(t)))}
       /\ UNCHANGED <<windowTabs, suppressEventsUntil, createdEvents, storage,
                      reconcileInFlight, reconcilePending>>
       /\ lastPass' = NoPass

\* the creates and the remove a pass has still to issue in its window, and
\* the windows it has still to reconcile
WorkLeft(t) ==
  [mutations |-> Len(t.create) + (IF t.remove # <<>> THEN 1 ELSE 0),
   wins |-> Len(t.wins)]

\* the rest of reconcileWindow: the next create, then the remove
NextMutation(t, fail) ==
  IF t.create # <<>>
  THEN LET u == [t EXCEPT !.pc = "create", !.create = Tail(@), !.issued = @ + 1]
           \* chrome.tabs.create rejects when the window was closed meanwhile
           threw == fail \/ t.windowId \notin openWindows
       IN /\ suppressEventsUntil' = suppressEvents
          /\ windowTabs' = IF threw THEN windowTabs
                           ELSE TabsAfterCreate(t.windowId, Head(t.create).url)
          /\ createdEvents' = IF threw THEN createdEvents
                              ELSE Min(createdEvents + 1, MaxCreatedEvents)
          /\ tasks' = (tasks \ {t}) \cup
               {IF threw THEN AfterMutationFailure(u, WorkLeft(u)) ELSE u}
          /\ UNCHANGED <<storage, reconcileInFlight, reconcilePending>>
          /\ lastPass' = NoPass
  ELSE IF t.remove # <<>>
  THEN LET u == [t EXCEPT !.pc = "remove", !.remove = <<>>, !.issued = @ + 1]
       IN /\ suppressEventsUntil' = suppressEvents
          /\ windowTabs' = IF fail THEN windowTabs ELSE TabsAfterRemove(t.remove)
          /\ tasks' = (tasks \ {t}) \cup
               {IF fail THEN AfterMutationFailure(u, WorkLeft(u)) ELSE u}
          /\ UNCHANGED <<createdEvents, storage, reconcileInFlight,
                         reconcilePending>>
          /\ lastPass' = NoPass
  ELSE NextWindow(t, fail)

\* the code after `await ensureCanonicalInitialized()`, up to the next API
\* call or timer: windows.getAll in a pass, setCanonicalMap in a pin and in
\* a confirmed unpin, setTimeout in an unpin
AfterEnsure(t, fail) ==
  LET url == normalizeUrl(getTabUrl(t.tab))
      key == canonicalKeyForUrl(url)
      wins == IF fail THEN <<>> ELSE SortedSeq(openWindows)
      canonical == IF t.kind = "pin" THEN MapSetIfAbsent(t.map, key, url)
                   ELSE MapDelete(t.map, key)
      u == [t EXCEPT !.old = <<>>, !.err = fail]
  IN /\ CASE t.kind = "pass" ->
              /\ tasks' = (tasks \ {t}) \cup
                   {[u EXCEPT !.pc = "getAll", !.wins = wins,
                              !.enumerated = Len(wins)]}
              /\ UNCHANGED storage
          [] t.kind = "unpin" ->
              /\ ~fail
              /\ tasks' = (tasks \ {t}) \cup {[u EXCEPT !.pc = "confirmWait", !.map = <<>>]}
              /\ UNCHANGED storage
          [] t.kind \in {"pin", "confirm"} ->
              /\ tasks' = (tasks \ {t}) \cup {[u EXCEPT !.pc = "write", !.map = <<>>]}
              /\ storage' = IF fail THEN storage
                            ELSE setCanonicalMap(canonical)
     /\ UNCHANGED <<windowTabs, suppressEventsUntil, createdEvents,
                    reconcileInFlight, reconcilePending>>
     /\ lastPass' = NoPass

\* what a step that resumes a waiting function leaves alone
ResumeFrame(fail) ==
  /\ budget' = [budget EXCEPT !.failures = @ - Spend(fail)]
  /\ UNCHANGED <<openWindows, timers, reconcileTimer, planVars, keyVars,
                 userAction>>

\* getCanonicalMap after chrome.storage.local.get returned, and the start of
\* the seeding of ensureCanonicalInitialized
ResumeGet(t, fail) ==
  /\ t.pc = "get" /\ ~t.err
  /\ IF t.map # <<>> THEN AfterEnsure(t, fail)
     ELSE /\ IF t.old # <<>>
             THEN \* await setCanonicalMap(legacy)
                  /\ storage' = IF fail THEN storage
                                ELSE setCanonicalMap(t.old)
                  /\ tasks' = (tasks \ {t}) \cup
                       {[t EXCEPT !.pc = "migrate", !.err = fail, !.map = t.old,
                                  !.old = <<>>]}
             ELSE \* await chrome.tabs.query({ pinned: true })
                  /\ tasks' = (tasks \ {t}) \cup
                       {[t EXCEPT !.pc = "seedQuery", !.err = fail,
                                  !.map = IF fail THEN <<>>
                                          ELSE SeedMap(PinnedOnly(TabsOf(SortedSeq(openWindows))), <<>>)]}
                  /\ UNCHANGED storage
          /\ UNCHANGED <<windowTabs, suppressEventsUntil, createdEvents,
                         reconcileInFlight, reconcilePending>>
          /\ lastPass' = NoPass
  /\ ResumeFrame(fail)

\* getCanonicalMap after the legacy map was copied forward
ResumeMigrate(t, fail) ==
  /\ t.pc = "migrate" /\ ~t.err
  /\ AfterEnsure(t, fail)
  /\ ResumeFrame(fail)

\* ensureCanonicalInitialized after chrome.tabs.query({pinned: true}) returned
ResumeSeedQuery(t, fail) ==
  /\ t.pc = "seedQuery" /\ ~t.err
  /\ storage' = IF fail THEN storage ELSE setCanonicalMap(t.map)
  /\ tasks' = (tasks \ {t}) \cup {[t EXCEPT !.pc = "seedSet", !.err = fail]}
  /\ UNCHANGED <<windowTabs, suppressEventsUntil, createdEvents,
                 reconcileInFlight, reconcilePending>>
  /\ lastPass' = NoPass
  /\ ResumeFrame(fail)

\* ensureCanonicalInitialized after the seeds were stored
ResumeSeedSet(t, fail) ==
  /\ t.pc = "seedSet" /\ ~t.err
  /\ AfterEnsure(t, fail)
  /\ ResumeFrame(fail)

\* reconcileAllWindows after chrome.windows.getAll returned
ResumeGetAll(t, fail) ==
  /\ t.pc = "getAll" /\ ~t.err
  /\ NextWindow(t, fail)
  /\ ResumeFrame(fail)

\* reconcileWindow after chrome.tabs.query({windowId}) returned
ResumeQuery(t, fail) ==
  /\ t.pc = "query" /\ ~t.err
  /\ NextMutation(t, fail)
  /\ ResumeFrame(fail)

\* reconcileWindow after chrome.tabs.create returned or threw
ResumeCreate(t, fail) ==
  /\ t.pc = "create" /\ ~t.err
  /\ NextMutation(t, fail)
  /\ ResumeFrame(fail)

\* reconcileWindow after chrome.tabs.remove returned or threw
ResumeRemove(t, fail) ==
  /\ t.pc = "remove" /\ ~t.err
  /\ NextWindow(t, fail)
  /\ ResumeFrame(fail)

\* the awaited call threw: catch and finally in a pass, the end of the
\* function in a handler
ResumeFailed(t, fail) ==
  /\ t.err
  /\ IF t.kind = "pass" THEN Finally(t, fail)
     ELSE /\ ~fail
          /\ tasks' = tasks \ {t}
          /\ UNCHANGED <<windowTabs, suppressEventsUntil, createdEvents,
                         storage, reconcileInFlight, reconcilePending>>
          /\ lastPass' = NoPass
  /\ ResumeFrame(fail)

\* onTabPinnedChanged after setCanonicalMap returned
ResumeWrite(t) ==
  /\ t.pc = "write" /\ ~t.err
  /\ scheduleReconcile(150)
  /\ tasks' = tasks \ {t}
  /\ UNCHANGED <<windowTabs, openWindows, storage, createdEvents,
                 reconcileInFlight, reconcilePending, suppressEventsUntil,
                 budget, planVars, keyVars, userAction>>
  /\ lastPass' = NoPass

TabWithId(id) ==
  LET all == TabsOf(SortedSeq(WindowIds))
  IN IF \E i \in 1..Len(all) : all[i].id = id
     THEN all[CHOOSE i \in 1..Len(all) : all[i].id = id]
     ELSE NoTab

\* the confirmation timer of an unpin fires: chrome.tabs.get(tabId)
ConfirmFire(t, fail) ==
  /\ t.pc = "confirmWait"
  /\ tasks' = (tasks \ {t}) \cup
       {[t EXCEPT !.kind = "confirm", !.pc = "tabsGet",
                  !.tab = IF fail THEN NoTab ELSE TabWithId(t.tab.id)]}
  /\ UNCHANGED <<windowTabs, suppressEventsUntil, createdEvents, storage,
                 reconcileInFlight, reconcilePending>>
  /\ lastPass' = NoPass
  /\ ResumeFrame(fail)

\* mutant: the unpin is not confirmed against the re-queried tab
ConfirmAbortedNever(tab) == FALSE

\* if (chrome.runtime.lastError || !t) return; if (t.pinned) return;
\* if (!isSyncableUrl(latestRaw)) return;
ConfirmAborted(tab) ==
  tab = NoTab \/ tab.pinned \/ ~isSyncableUrl(getTabUrl(tab))

\* the callback of chrome.tabs.get
ResumeTabsGet(t, fail) ==
  /\ t.pc = "tabsGet"
  /\ IF ConfirmAborted(t.tab)
     THEN ~fail /\ tasks' = tasks \ {t}
     ELSE tasks' = (tasks \ {t}) \cup {StorageGet(t, fail)}
  /\ UNCHANGED <<windowTabs, suppressEventsUntil, createdEvents, storage,
                 reconcileInFlight, reconcilePending>>
  /\ lastPass' = NoPass
  /\ ResumeFrame(fail)

\* onTabPinnedChanged(tab, pinned) up to its first API call
onTabPinnedChanged(tab, pinned, fail) ==
  /\ IF eventsSuppressed \/ ~isSyncableUrl(getTabUrl(tab))
     THEN ~fail /\ tasks' = Dirty(tasks)
     ELSE tasks' = Dirty(tasks) \cup
            {StorageGet([NewTask(IF pinned THEN "pin" ELSE "unpin", "", tab)
                           EXCEPT !.n = budget.events], fail)}

\* what the user did last, and to which app
ActionOn(kind, tab) ==
  [kind |-> kind,
   key |-> canonicalKeyForUrl(normalizeUrl(getTabUrl(tab))),
   syncable |-> isSyncableUrl(getTabUrl(tab)),
   ignored |-> eventsSuppressed,
   pinned |-> tab.pinned,
   closesOnly |-> userAction.closesOnly /\ kind \in {"close", "closeWindow"}]

\* what a reconcile request from outside leaves alone
RequestFrame(fail) ==
  /\ budget.requests > 0
  /\ budget' = [budget EXCEPT !.requests = @ - 1, !.failures = @ - Spend(fail)]
  /\ UNCHANGED <<windowTabs, openWindows, storage, createdEvents,
                 suppressEventsUntil, planVars, keyVars, userAction>>

\* what a user action leaves alone
EventFrame(fail) ==
  /\ budget.events > 0
  /\ budget' = [budget EXCEPT !.events = @ - 1, !.failures = @ - Spend(fail)]
  /\ UNCHANGED <<storage, createdEvents, suppressEventsUntil, planVars,
                 keyVars>>
  /\ lastPass' = NoPass

\* the user pins tab i of window w: tabs.onUpdated with changeInfo.pinned
UserPin(w, i, fail) ==
  /\ w \in openWindows /\ i \in 1..Len(windowTabs[w])
  /\ ~windowTabs[w][i].pinned
  /\ windowTabs' = [windowTabs EXCEPT ![w][i].pinned = TRUE]
  /\ onTabPinnedChanged([windowTabs[w][i] EXCEPT !.pinned = TRUE], TRUE, fail)
  /\ userAction' = ActionOn("pin", windowTabs[w][i])
  /\ EventFrame(fail)
  /\ UNCHANGED <<openWindows, timers, reconcileTimer, reconcileInFlight,
                 reconcilePending>>

\* the user unpins tab i of window w
UserUnpin(w, i, fail) ==
  /\ w \in openWindows /\ i \in 1..Len(windowTabs[w])
  /\ windowTabs[w][i].pinned
  /\ windowTabs' = [windowTabs EXCEPT ![w][i].pinned = FALSE]
  /\ onTabPinnedChanged([windowTabs[w][i] EXCEPT !.pinned = FALSE], FALSE, fail)
  /\ userAction' = ActionOn("unpin", windowTabs[w][i])
  /\ EventFrame(fail)
  /\ UNCHANGED <<openWindows, timers, reconcileTimer, reconcileInFlight,
                 reconcilePending>>

\* runtime.onMessage with a reconcile request:
\* reconcileAllWindows("manual").then(() => sendResponse({ ok: true })); when a
\* pass is in flight the call returns at once, its promise is resolved and
\* the response is sent before any other event is handled
ManualRequest(fail) ==
  /\ reconcileAllWindows("manual", fail)
  /\ RequestFrame(fail)
  /\ lastPass' = IF PassRunning(reconcileInFlight)
                 THEN [NoPass EXCEPT !.reason = "manual",
                                     !.response = [sent |-> TRUE, ok |-> TRUE]]
                 ELSE NoPass
  /\ UNCHANGED <<timers, reconcileTimer>>

\* runtime.onInstalled
OnInstalled ==
  /\ scheduleReconcile(0)
  /\ RequestFrame(FALSE)
  /\ lastPass' = NoPass
  /\ UNCHANGED <<tasks, reconcileInFlight, reconcilePending>>

\* runtime.onStartup
OnStartup ==
  /\ scheduleReconcile(0)
  /\ RequestFrame(FALSE)
  /\ lastPass' = NoPass
  /\ UNCHANGED <<tasks, reconcileInFlight, reconcilePending>>

\* the user opens window w: windows.onCreated
WindowCreated(w) ==
  /\ w \in WindowIds \ openWindows
  /\ openWindows' = openWindows \cup {w}
  /\ tasks' = Dirty(tasks)
  /\ scheduleReconcile(200)
  /\ userAction' = [NoAction EXCEPT !.kind = "window",
                                    !.closesOnly = userAction.closesOnly]
  /\ EventFrame(FALSE)
  /\ UNCHANGED <<windowTabs, reconcileInFlight, reconcilePending>>

\* the user closes tab i of window w: the service worker has no listener
\* for tabs.onRemoved
UserCloseTab(w, i) ==
  /\ w \in openWindows /\ i \in 1..Len(windowTabs[w])
  /\ windowTabs' = TabsAfterRemove(<<windowTabs[w][i].id>>)
  /\ tasks' = Dirty(tasks)
  /\ userAction' = ActionOn("close", windowTabs[w][i])
  /\ EventFrame(FALSE)
  /\ UNCHANGED <<openWindows, timers, reconcileTimer, reconcileInFlight,
                 reconcilePending>>

\* the user closes window w, not the last one: the service worker has no
\* listener for windows.onRemoved, and the teardown may emit tabs.onUpdated
\* with pinned = false for pinned tab i of the window (i = 0: it does not)
UserCloseWindow(w, i) ==
  /\ w \in openWindows /\ openWindows # {w}
  /\ i \in 0..Len(windowTabs[w])
  /\ i > 0 => windowTabs[w][i].pinned
  /\ openWindows' = openWindows \ {w}
  /\ windowTabs' = [windowTabs EXCEPT ![w] = <<>>]
  /\ IF i > 0
     THEN /\ onTabPinnedChanged([windowTabs[w][i] EXCEPT !.pinned = FALSE],
                                FALSE, FALSE)
          /\ userAction' = ActionOn("closeWindow", windowTabs[w][i])
     ELSE /\ tasks' = Dirty(tasks)
          /\ userAction' = [NoAction EXCEPT !.kind = "closeWindow",
                                            !.closesOnly = userAction.closesOnly]
  /\ EventFrame(FALSE)
  /\ UNCHANGED <<timers, reconcileTimer, reconcileInFlight, reconcilePending>>

\* tabs.onCreated for a pinned tab that a pass created
OnTabCreated ==
  /\ createdEvents > 0
  /\ createdEvents' = createdEvents - 1
  /\ IF ~eventsSuppressed THEN scheduleReconcile(300)
     ELSE UNCHANGED <<timers, reconcileTimer>>
  /\ UNCHANGED <<windowTabs, openWindows, storage, reconcileInFlight,
                 reconcilePending, suppressEventsUntil, tasks, budget,
                 planVars, keyVars, userAction>>
  /\ lastPass' = NoPass

\* the debounce timer fires
TimerFire(tm, fail) ==
  /\ tm \in timers
  /\ timers' = timers \ {tm}
  /\ reconcileTimer' = 0
  /\ reconcileAllWindows("scheduled", fail)
  /\ budget' = [budget EXCEPT !.failures = @ - Spend(fail)]
  /\ UNCHANGED <<windowTabs, openWindows, storage, createdEvents,
                 suppressEventsUntil, planVars, keyVars, userAction>>
  /\ lastPass' = NoPass

\* MUTATION_SUPPRESS_MS pass without a mutation, between two passes
ClockAdvance ==
  /\ suppressEventsUntil > 0
  /\ Passes = {}
  /\ suppressEventsUntil' = 0
  /\ UNCHANGED <<windowTabs, openWindows, storage, timers, createdEvents,
                 reconcileTimer, reconcileInFlight, reconcilePending, tasks,
                 budget, planVars, keyVars, userAction>>
  /\ lastPass' = NoPass

LoopTab(id, url, pinned) ==
  [id |-> id, url |-> url, pendingUrl |-> Undefined, pinned |-> pinned]

\* the service worker starts with one or two windows open, an app tab in
\* the first window next to a tab of another app, one of the two pinned, and
\* with what an earlier run or an earlier build left in storage; in the last
\* world the app tab shows a fragment and its neighbour is a pinned
\* chrome:// page
LoopWorlds ==
  LET storages == [cur : {<<>>, <<[key |-> KeyATest, url |-> UrlATestX]>>},
                   old : {<<>>, <<[key |-> UrlATestX, url |-> UrlATestX]>>}]
      appOnly == [cur |-> <<[key |-> KeyATest, url |-> UrlATestX]>>, old |-> <<>>]
      first(p, g) == <<LoopTab(1, UrlATestX, p), LoopTab(2, UrlGeminiX, g)>>
      second == <<LoopTab(3, UrlATestRoot, TRUE)>>
  IN { [open |-> {1, 2}, tabs |-> <<first(TRUE, FALSE), w2>>, storage |-> st] :
         w2 \in {<<>>, second}, st \in storages }
     \cup { [open |-> {1, 2}, tabs |-> <<first(FALSE, TRUE), second>>,
             storage |-> appOnly] }
     \cup { [open |-> {1}, tabs |-> <<first(TRUE, FALSE), <<>>>>, storage |-> st] :
              st \in {appOnly, [cur |-> <<>>, old |-> <<>>]} }
     \cup { [open |-> {1, 2},
             tabs |-> << <<LoopTab(1, UrlATestXHash, TRUE), LoopTab(2, UrlChrome, TRUE)>>,
                         second >>,
             storage |-> [cur |-> <<>>, old |-> <<>>]] }

\* the runs with a second user action start with both windows open, the
\* app pinned in the first and canonical, and no legacy storage
TwoEventWorld(world) ==
  /\ world.open = WindowIds
  /\ world.tabs[1][1].pinned
  /\ world.storage = [cur |-> <<[key |-> KeyATest, url |-> UrlATestX]>>, old |-> <<>>]

InitLoop ==
  /\ \E world \in LoopWorlds :
       /\ openWindows = world.open
       /\ windowTabs = [w \in WindowIds |-> world.tabs[w]]
       /\ storage = [cur |-> world.storage.cur, old |-> world.storage.old,
                     used |-> world.storage.cur # <<>>]
       /\ budget \in {b \in LoopBudgets : b.events > MaxEvents => TwoEventWorld(world)}
  /\ timers = {}
  /\ createdEvents = 0
  /\ reconcileTimer = 0
  /\ reconcileInFlight = FALSE
  /\ reconcilePending = FALSE
  /\ suppressEventsUntil = 0
  /\ tasks = {}
  /\ lastPass = NoPass
  /\ userAction = NoAction
  /\ PlanIdle
  /\ KeyIdle

NextLoop ==
  \/ \E w \in WindowIds : \E i \in 1..Len(windowTabs[w]), fail \in FailChoices :
       UserPin(w, i, fail)
  \/ \E w \in WindowIds : \E i \in 1..Len(windowTabs[w]), fail \in FailChoices :
       UserUnpin(w, i, fail)
  \/ \E fail \in FailChoices : ManualRequest(fail)
  \/ OnInstalled
  \/ OnStartup
  \/ \E w \in WindowIds : WindowCreated(w)
  \/ \E w \in WindowIds : \E i \in 1..Len(windowTabs[w]) : UserCloseTab(w, i)
  \/ \E w \in WindowIds : \E i \in 0..Len(windowTabs[w]) : UserCloseWindow(w, i)
  \/ OnTabCreated
  \/ \E tm \in timers, fail \in FailChoices : TimerFire(tm, fail)
  \/ ClockAdvance
  \/ \E t \in tasks, fail \in FailChoices : ResumeGet(t, fail)
  \/ \E t \in tasks, fail \in FailChoices : ResumeMigrate(t, fail)
  \/ \E t \in tasks, fail \in FailChoices : ResumeSeedQuery(t, fail)
  \/ \E t \in tasks, fail \in FailChoices : ResumeSeedSet(t, fail)
  \/ \E t \in tasks, fail \in FailChoices : ResumeGetAll(t, fail)
  \/ \E t \in tasks, fail \in FailChoices : ResumeQuery(t, fail)
  \/ \E t \in tasks, fail \in FailChoices : ResumeCreate(t, fail)
  \/ \E t \in tasks, fail \in FailChoices : ResumeRemove(t, fail)
  \/ \E t \in tasks, fail \in FailChoices : ResumeFailed(t, fail)
  \/ \E t \in tasks, fail \in FailChoices : ConfirmFire(t, fail)
  \/ \E t \in tasks, fail \in FailChoices : ResumeTabsGet(t, fail)
  \/ \E t \in tasks : ResumeWrite(t)

SpecLoop == InitLoop /\ [][NextLoop]_vars

(***************************************************************************)
(* The scheduling of passes in the two builds of the service worker: the   *)
(* build with the pending flag and the variant that drops a call made      *)
(* during a pass. The runs have the steps the two builds share: start-up,  *)
(* a new window, a user pin, the timer, the pass.                          *)
(***************************************************************************)
InitTrigger ==
  /\ \E world \in LoopWorlds :
       /\ openWindows = world.open
       /\ windowTabs = [w \in WindowIds |-> world.tabs[w]]
       /\ storage = [cur |-> world.storage.cur, old |-> world.storage.old,
                     used |-> world.storage.cur # <<>>]
  /\ \E drop \in BOOLEAN :
       budget = [events |-> MaxEvents, requests |-> 1, failures |-> 0,
                 dropBuild |-> drop]
  /\ timers = {}
  /\ createdEvents = 0
  /\ reconcileTimer = 0
  /\ reconcileInFlight = FALSE
  /\ reconcilePending = FALSE
  /\ suppressEventsUntil = 0
  /\ tasks = {}
  /\ lastPass = NoPass
  /\ userAction = NoAction
  /\ PlanIdle
  /\ KeyIdle

NextTrigger ==
  \/ \E w \in WindowIds : \E i \in 1..Len(windowTabs[w]) : UserPin(w, i, FALSE)
  \/ OnStartup
  \/ OnTabCreated
  \/ \E tm \in timers : TimerFire(tm, FALSE)
  \/ ClockAdvance
  \/ \E t \in tasks : ResumeGet(t, FALSE)
  \/ \E t \in tasks : ResumeMigrate(t, FALSE)
  \/ \E t \in tasks : ResumeSeedQuery(t, FALSE)
  \/ \E t \in tasks : ResumeSeedSet(t, FALSE)
  \/ \E t \in tasks : ResumeGetAll(t, FALSE)
  \/ \E t \in tasks : ResumeQuery(t, FALSE)
  \/ \E t \in tasks : ResumeCreate(t, FALSE)
  \/ \E t \in tasks : ResumeRemove(t, FALSE)
  \/ \E t \in tasks : ResumeWrite(t)

SpecTrigger == InitTrigger /\ [][NextTrigger]_vars

(***************************************************************************)
(* Properties of the plan computer                                          *)
(***************************************************************************)
Count(seq, x) == Cardinality({i \in 1..Len(seq) : seq[i] = x})

CanonKeys == {canonicalMap[i].key : i \in 1..Len(canonicalMap)}

\* a valid http or https URL, stated on the parsed URL
HttpUrl(raw) ==
  /\ ~Falsy(raw)
  /\ NewURL(raw).ok
  /\ NewURL(raw).protocol \in {"http:", "https:"}

\* the committed URL if non-empty, else the pending URL, else ""
Resolved(t) ==
  IF ~Falsy(t.url) THEN t.url
  ELSE IF ~Falsy(t.pendingUrl) THEN t.pendingUrl
  ELSE EmptyString

Syncable(t) == HttpUrl(Resolved(t))

TabKey(t) == canonicalKeyForUrl(normalizeUrl(Resolved(t)))

\* the syncable pinned tabs of the window under key k, in input order
TabsUnder(k) == SelectSeq(pinnedTabs, LAMBDA t : Syncable(t) /\ TabKey(t) = k)

UpdateIds == [i \in 1..Len(plan.update) |-> plan.update[i].tabId]

CreateKeys == [i \in 1..Len(plan.create) |-> plan.create[i].key]

\* C1: for each canonical key with N > 1 syncable pinned tabs, exactly the
\* N-1 tabs after the first (in input order) are in removeTabIds, once each,
\* and the first is not in removeTabIds.
C1_DedupInvariant ==
  planState = "keep" =>
    \A k \in CanonKeys :
      LET ts == TabsUnder(k)
      IN Len(ts) > 1 =>
           /\ Count(plan.removeTabIds, ts[1].id) = 0
           /\ \A i \in 2..Len(ts) : Count(plan.removeTabIds, ts[i].id) = 1

C1_Witness ==
  /\ planState = "keep"
  /\ \E k \in CanonKeys : Len(TabsUnder(k)) >= 3
  /\ Len(plan.removeTabIds) >= 2

\* C2: every syncable pinned tab whose key is not a canonical key is in
\* removeTabIds exactly once, whatever the other tabs and canonical entries.
C2_NonCanonicalPurge ==
  planState = "keep" =>
    \A i \in 1..Len(pinnedTabs) :
      (Syncable(pinnedTabs[i]) /\ TabKey(pinnedTabs[i]) \notin CanonKeys)
        => Count(plan.removeTabIds, pinnedTabs[i].id) = 1

C2_Witness ==
  /\ planState = "keep"
  /\ \E i, j \in 1..Len(pinnedTabs) :
       /\ i # j
       /\ Syncable(pinnedTabs[i]) /\ Syncable(pinnedTabs[j])
       /\ TabKey(pinnedTabs[i]) \notin CanonKeys
       /\ TabKey(pinnedTabs[j]) = TabKey(pinnedTabs[i])
  /\ \E k \in CanonKeys : Len(TabsUnder(k)) >= 1

\* C3: create holds exactly one {key, url} entry for each canonical key with
\* no syncable pinned tab in the window, url being the canonical target of the
\* key, and no entry for any other key.
C3_CreateExact ==
  planState = "keep" =>
    /\ \A k \in CanonKeys :
         Len(TabsUnder(k)) = 0 =>
           /\ Count(CreateKeys, k) = 1
           /\ \E i \in 1..Len(plan.create) :
                plan.create[i] = [key |-> k, url |-> CanonGet(canonicalMap, k)]
    /\ \A i \in 1..Len(plan.create) :
         /\ plan.create[i].key \in CanonKeys
         /\ Len(TabsUnder(plan.create[i].key)) = 0

C3_Witness ==
  /\ planState = "keep"
  /\ Len(plan.create) = 1
  /\ \E k \in CanonKeys : Len(TabsUnder(k)) >= 1

\* C4: a pinned tab whose resolved URL is not a valid http(s) URL is in none
\* of create, update, removeTabIds, and the plan is the plan of the window
\* without such tabs.
C4_SyncabilityFilter ==
  planState = "keep" =>
    /\ \A i \in 1..Len(pinnedTabs) :
         ~Syncable(pinnedTabs[i]) =>
           /\ Count(plan.removeTabIds, pinnedTabs[i].id) = 0
           /\ Count(UpdateIds, pinnedTabs[i].id) = 0
    /\ plan = computePinnedWindowPlan(SelectSeq(pinnedTabs, Syncable), canonicalMap)

C4_Witness ==
  /\ planState = "keep"
  /\ \E i \in 1..Len(pinnedTabs) : pinnedTabs[i].url = UrlChrome
  /\ \E i \in 1..Len(pinnedTabs) : pinnedTabs[i].url = UrlGarbage
  /\ plan.removeTabIds # <<>>

\* C5: when the window's syncable pinned tabs are exactly one tab per
\* canonical key and none under any other key, create, update and
\* removeTabIds are all empty.
C5_Converged ==
  /\ \A k \in CanonKeys : Len(TabsUnder(k)) = 1
  /\ \A i \in 1..Len(pinnedTabs) :
       Syncable(pinnedTabs[i]) => TabKey(pinnedTabs[i]) \in CanonKeys

C5_Idempotence ==
  (planState = "keep" /\ C5_Converged) =>
    /\ plan.create = <<>>
    /\ plan.update = <<>>
    /\ plan.removeTabIds = <<>>

C5_Witness ==
  /\ planState = "keep"
  /\ C5_Converged
  /\ Len(canonicalMap) >= 2

\* C6: the plan does not depend on the insertion order of the canonical map
\* (same entries, any order, same tab list: the same three lists in the same
\* order), and create is in sorted order of canonical keys.
C6_Reorderings ==
  { m \in [1..Len(canonicalMap) -> {canonicalMap[i] : i \in 1..Len(canonicalMap)}] :
      DistinctKeys(m) }

C6_Determinism ==
  planState = "keep" =>
    /\ \A m \in C6_Reorderings : computePinnedWindowPlan(pinnedTabs, m) = plan
    /\ \A i, j \in 1..Len(plan.create) :
         i < j => StrLess(plan.create[i].key, plan.create[j].key)

C6_Witness ==
  /\ planState = "keep"
  /\ Len(plan.create) >= 2
  /\ StrLess(canonicalMap[2].key, canonicalMap[1].key)

\* C7: each tab id of the input is at most once in removeTabIds and at most
\* once in update, never in both, and create carries canonical keys only
\* (keep-existing and replace-with-newest plans alike).
C7_PlanDisjoint ==
  planState \in {"keep", "replace"} =>
    /\ \A i \in 1..Len(pinnedTabs) :
         LET id == pinnedTabs[i].id
         IN /\ Count(plan.removeTabIds, id) <= 1
            /\ Count(UpdateIds, id) <= 1
            /\ ~(Count(plan.removeTabIds, id) > 0 /\ Count(UpdateIds, id) > 0)
    /\ \A i \in 1..Len(plan.create) : plan.create[i].key \in CanonKeys

C7_Witness ==
  /\ planState = "replace"
  /\ plan.update # <<>>
  /\ Len(plan.removeTabIds) >= 2

\* the kept (first) tab of canonical key k has a normalized URL that differs
\* from the canonical target of k
KeptDiffers(k) ==
  /\ Len(TabsUnder(k)) >= 1
  /\ normalizeUrl(Resolved(TabsUnder(k)[1])) # CanonGet(canonicalMap, k)

\* C8: under keep-existing the update list is empty for every input, and a
\* kept tab whose URL differs from the canonical target is not removed.
C8_KeepExistingNoUpdate ==
  planState = "keep" =>
    /\ plan.update = <<>>
    /\ \A k \in CanonKeys :
         KeptDiffers(k) => Count(plan.removeTabIds, TabsUnder(k)[1].id) = 0

C8_Witness ==
  /\ planState = "keep"
  /\ \E k \in CanonKeys : KeptDiffers(k)

\* C9: when the kept tab of a canonical key has a normalized URL different
\* from the canonical target, update contains {tabId of the kept tab, url:
\* canonical target}, the key is not created and the kept tab is not removed.
C9_UpdatesToNewest ==
  planState = "keep" =>
    \A k \in CanonKeys :
      KeptDiffers(k) =>
        /\ \E i \in 1..Len(plan.update) :
             plan.update[i] = [tabId |-> TabsUnder(k)[1].id,
                               url |-> CanonGet(canonicalMap, k)]
        /\ Count(CreateKeys, k) = 0
        /\ Count(plan.removeTabIds, TabsUnder(k)[1].id) = 0

\* C10: getTabUrl is the committed url if non-empty, else pendingUrl, else
\* ""; a pinned tab with empty committed url whose pendingUrl falls under a
\* canonical key counts as an instance of that key: the key is not created.
C10_PendingFallback ==
  planState = "keep" =>
    \A i \in 1..Len(pinnedTabs) :
      LET t == pinnedTabs[i]
      IN /\ getTabUrl(t) = Resolved(t)
         /\ (Falsy(t.url) /\ HttpUrl(t.pendingUrl)
               /\ canonicalKeyForUrl(t.pendingUrl) \in CanonKeys)
              => Count(CreateKeys, canonicalKeyForUrl(t.pendingUrl)) = 0

C10_Witness ==
  /\ planState = "keep"
  /\ \E i \in 1..Len(pinnedTabs) :
       LET t == pinnedTabs[i]
       IN /\ Falsy(t.url) /\ HttpUrl(t.pendingUrl)
          /\ canonicalKeyForUrl(t.pendingUrl) \in CanonKeys
          /\ Len(TabsUnder(canonicalKeyForUrl(t.pendingUrl))) = 1
  /\ plan.create # <<>>

(***************************************************************************)
(* Properties of the identity component                                     *)
(***************************************************************************)
\* the raw string parses as an absolute URL
Parseable(raw) == NewURL(raw).ok

\* scheme, host and port of a raw URL, the default port of the scheme and
\* no port being the same port
SchemeHostPort(raw) ==
  LET port == IF Len(raw) >= 3 /\ raw[3] \in Ports THEN raw[3] ELSE ""
  IN <<raw[1], raw[2]>>
       \o (IF (raw[1] = "https:" /\ port = ":443") \/ (raw[1] = "http:" /\ port = ":80")
           THEN <<>> ELSE Opt(port))

\* the raw string with its fragment dropped
WithoutFragment(raw) ==
  IF raw # <<>> /\ raw[Len(raw)] \in Hashes THEN SubSeq(raw, 1, Len(raw) - 1) ELSE raw

\* C11 as stated: for every parseable URL the key is "origin:" followed by
\* scheme+host+port, and two parseable URLs have the same key exactly when
\* they share scheme, host and port.
C11_OriginKeyEveryUrl ==
  keyState = "origin" =>
    /\ Parseable(keyUrlA) => keyA = <<"origin:">> \o SchemeHostPort(keyUrlA)
    /\ (Parseable(keyUrlA) /\ Parseable(keyUrlB)) =>
         (keyA = keyB <=> SchemeHostPort(keyUrlA) = SchemeHostPort(keyUrlB))

\* C11 amended: for every parseable http or https URL the key is "origin:"
\* followed by scheme+host+port, and two such URLs have the same key exactly
\* when they share scheme, host and port, whatever their path, query or
\* fragment.
C11_OriginKeyHttp ==
  keyState = "origin" =>
    /\ HttpUrl(keyUrlA) => keyA = <<"origin:">> \o SchemeHostPort(keyUrlA)
    /\ (HttpUrl(keyUrlA) /\ HttpUrl(keyUrlB)) =>
         (keyA = keyB <=> SchemeHostPort(keyUrlA) = SchemeHostPort(keyUrlB))

C11_Witness ==
  /\ keyState = "origin"
  /\ HttpUrl(keyUrlA) /\ HttpUrl(keyUrlB)
  /\ WithoutFragment(keyUrlA) # WithoutFragment(keyUrlB)
  /\ Len(keyUrlA) >= 5 /\ Len(keyUrlB) = 2
  /\ keyA = keyB

\* C12: canonicalKeyForUrl of core.js gives the normalized URL (fragment
\* removed) for a URL on a non-Gemini host and "origin:<origin>" for a URL
\* on the Gemini host.
C12_ExactKeyNonGemini ==
  keyState = "origin" =>
    (HttpUrl(keyUrlA) =>
       IF keyUrlA[2] = GEMINI_HOST
       THEN keyA = <<"origin:">> \o SchemeHostPort(keyUrlA)
       ELSE keyA = normalizeUrl(keyUrlA))

(***************************************************************************)
(* The union variant of the service worker (PinAcross): the canonical set  *)
(* is the set of the URLs that are pinned anywhere. It is modelled over    *)
(* the same browser; its API calls do not fail here, and the navigation of *)
(* a tab it creates is committed before the next query.                    *)
(***************************************************************************)
RECURSIVE UnionSetOf(_, _)
\* the loop of computePinnedSetFromBrowser: a JS Set in insertion order
UnionSetOf(ts, set) ==
  IF ts = <<>> THEN set
  ELSE LET u == normalizeUrl(Head(ts).url)
       IN IF ~isSyncableUrl(Head(ts).url) \/ InSeq(u, set)
          THEN UnionSetOf(Tail(ts), set)
          ELSE UnionSetOf(Tail(ts), Append(set, u))

\* computePinnedSetFromBrowser with the result of tabs.query({pinned: true})
computePinnedSetFromBrowser ==
  UnionSetOf(PinnedOnly(TabsOf(SortedSeq(openWindows))), <<>>)

\* the pinned tabs of a window that show url
ExistingPinnedByUrl(pinned, url) ==
  {i \in 1..Len(pinned) :
     isSyncableUrl(pinned[i].url) /\ normalizeUrl(pinned[i].url) = url}

\* ensurePinnedTabsInWindow, 1): the URLs of the sorted set without a pinned
\* tab in the window
UnionCreates(pinned, pinnedSet) ==
  SelectSeq(stableSortStrings(pinnedSet),
            LAMBDA url : ExistingPinnedByUrl(pinned, url) = {})

\* ensurePinnedTabsInWindow, 2): the pinned syncable tabs whose URL is not
\* in the set, and all but the first of those that share a URL
UnionRemoves(pinned, pinnedSet) ==
  LET gone(i) ==
        /\ isSyncableUrl(pinned[i].url)
        /\ \/ ~InSeq(normalizeUrl(pinned[i].url), pinnedSet)
           \/ \E j \in 1..i - 1 :
                j \in ExistingPinnedByUrl(pinned, normalizeUrl(pinned[i].url))
      idx == SelectSeq([i \in 1..Len(pinned) |-> i], gone)
  IN [k \in 1..Len(idx) |-> pinned[idx[k]].id]

\* chrome.tabs.create({windowId, url, pinned: true, active: false, index})
UnionTabsAfterCreate(windowId, url) ==
  [windowTabs EXCEPT ![windowId] =
     Append(@, [id |-> FreshTabId, url |-> url, pendingUrl |-> Undefined,
                pinned |-> TRUE])]

\* what the union variant does not have or does not use
UnionUnused ==
  UNCHANGED <<createdEvents, reconcilePending, suppressEventsUntil, lastPass,
              planVars, keyVars>>

\* the user pins or unpins tab i of window w: tabs.onUpdated with
\* changeInfo.pinned calls scheduleReconcile(200)
UnionUserToggle(w, i) ==
  LET tab == windowTabs[w][i]
  IN /\ budget.events > 0
     /\ w \in openWindows /\ i \in 1..Len(windowTabs[w])
     /\ windowTabs' = [windowTabs EXCEPT ![w][i].pinned = ~tab.pinned]
     /\ scheduleReconcile(200)
     /\ userAction' = [ActionOn(IF tab.pinned THEN "unpin" ELSE "pin", tab)
                         EXCEPT !.key = normalizeUrl(tab.url)]
     /\ budget' = [budget EXCEPT !.events = @ - 1]
     /\ UNCHANGED <<openWindows, storage, tasks, reconcileInFlight>>
     /\ UnionUnused

\* runtime.onStartup: scheduleReconcile(0)
UnionOnStartup ==
  /\ budget.requests > 0
  /\ scheduleReconcile(0)
  /\ budget' = [budget EXCEPT !.requests = @ - 1]
  /\ UNCHANGED <<windowTabs, openWindows, storage, tasks, reconcileInFlight,
                 userAction>>
  /\ UnionUnused

\* the debounce timer fires: reconcileAllWindows of the union variant up to
\* chrome.tabs.query({ pinned: true })
UnionTimerFire(tm) ==
  /\ tm \in timers
  /\ timers' = timers \ {tm}
  /\ reconcileTimer' = 0
  /\ IF reconcileInFlight THEN UNCHANGED <<tasks, reconcileInFlight>>
     ELSE /\ reconcileInFlight' = TRUE
          /\ tasks' = tasks \cup
               {[NewTask("union", "", NoTab) EXCEPT
                   !.pc = "pinnedQuery", !.map = computePinnedSetFromBrowser]}
  /\ UNCHANGED <<windowTabs, openWindows, storage, budget, userAction>>
  /\ UnionUnused

\* reconcileAllWindows of the union variant after the pinned tabs are
\* known: setPinnedSet, then chrome.windows.getAll
UnionResumeSet(t) ==
  /\ t.kind = "union"
  /\ \/ /\ t.pc = "pinnedQuery"
        /\ storage' = [storage EXCEPT !.cur = t.map]
        /\ tasks' = (tasks \ {t}) \cup {[t EXCEPT !.pc = "set"]}
     \/ /\ t.pc = "set"
        /\ tasks' = (tasks \ {t}) \cup
             {[t EXCEPT !.pc = "getAll", !.wins = SortedSeq(openWindows)]}
        /\ UNCHANGED storage
  /\ UNCHANGED <<windowTabs, openWindows, timers, reconcileTimer,
                 reconcileInFlight, budget, userAction>>
  /\ UnionUnused

\* the loop over wins: ensurePinnedTabsInWindow up to tabs.query({windowId}),
\* and finally { reconcileInFlight = false } after the last window
UnionNextWindow(t) ==
  /\ t.kind = "union"
  /\ t.pc \in {"getAll", "query", "create", "remove"}
  /\ t.create = <<>> /\ t.remove = <<>>
  /\ IF t.wins = <<>>
     THEN /\ reconcileInFlight' = FALSE
          /\ tasks' = tasks \ {t}
     ELSE LET pinned == PinnedOnly(windowTabs[Head(t.wins)])
          IN /\ tasks' = (tasks \ {t}) \cup
                  {[t EXCEPT !.pc = "query", !.windowId = Head(t.wins),
                             !.wins = Tail(@),
                             !.create = UnionCreates(pinned, t.map),
                             !.remove = UnionRemoves(pinned, t.map)]}
             /\ UNCHANGED reconcileInFlight
  /\ UNCHANGED <<windowTabs, openWindows, storage, timers, reconcileTimer,
                 budget, userAction>>
  /\ UnionUnused

\* the rest of ensurePinnedTabsInWindow: the next create, then the remove;
\* tabs.onCreated of a pinned tab calls scheduleReconcile(300) and
\* tabs.onRemoved calls scheduleReconcile(500)
UnionMutation(t) ==
  /\ t.kind = "union"
  /\ t.pc \in {"query", "create"}
  /\ IF t.create # <<>>
     THEN /\ windowTabs' = UnionTabsAfterCreate(t.windowId, Head(t.create))
          /\ scheduleReconcile(300)
          /\ tasks' = (tasks \ {t}) \cup
               {[t EXCEPT !.pc = "create", !.create = Tail(@)]}
     ELSE /\ t.remove # <<>>
          /\ windowTabs' = TabsAfterRemove(t.remove)
          /\ scheduleReconcile(500)
          /\ tasks' = (tasks \ {t}) \cup
               {[t EXCEPT !.pc = "remove", !.remove = <<>>]}
  /\ UNCHANGED <<openWindows, storage, reconcileInFlight, budget, userAction>>
  /\ UnionUnused

\* the union variant starts with both windows open, the app pinned in the
\* first window next to an unpinned tab of another app, and pinned or
\* missing in the second
InitUnion ==
  /\ openWindows = WindowIds
  /\ \E w2 \in {<<>>, <<LoopTab(3, UrlATestX, TRUE)>>} :
       windowTabs = <<<<LoopTab(1, UrlATestXHash, TRUE),
                        LoopTab(2, UrlGeminiX, FALSE)>>, w2>>
  /\ storage = [cur |-> <<>>, old |-> <<>>, used |-> FALSE]
  /\ timers = {}
  /\ createdEvents = 0
  /\ reconcileTimer = 0
  /\ reconcileInFlight = FALSE
  /\ reconcilePending = FALSE
  /\ suppressEventsUntil = 0
  /\ tasks = {}
  /\ budget = [events |-> MaxEvents + 1, requests |-> 1, failures |-> 0, dropBuild |-> FALSE]
  /\ lastPass = NoPass
  /\ userAction = NoAction
  /\ PlanIdle
  /\ KeyIdle

NextUnion ==
  \/ \E w \in WindowIds : \E i \in 1..Len(windowTabs[w]) : UnionUserToggle(w, i)
  \/ UnionOnStartup
  \/ \E tm \in timers : UnionTimerFire(tm)
  \/ \E t \in tasks : UnionResumeSet(t)
  \/ \E t \in tasks : UnionNextWindow(t)
  \/ \E t \in tasks : UnionMutation(t)

SpecUnion == InitUnion /\ [][NextUnion]_vars

(***************************************************************************)
(* Properties of the service worker                                        *)
(***************************************************************************)
TabKeyOf(tab) == canonicalKeyForUrl(normalizeUrl(getTabUrl(tab)))

\* the positions of the pinned syncable tabs of window w
PinnedSyncable(w) ==
  {i \in 1..Len(windowTabs[w]) :
     windowTabs[w][i].pinned /\ isSyncableUrl(getTabUrl(windowTabs[w][i]))}

\* the positions of the pinned syncable tabs of window w under key
PinnedUnder(w, key) == {i \in PinnedSyncable(w) : TabKeyOf(windowTabs[w][i]) = key}

KeysOf(m) == {m[i].key : i \in 1..Len(m)}

\* no asynchronous function waits, no timer is set, no event is on its way:
\* without a further event from outside nothing happens any more
Quiescent == tasks = {} /\ timers = {} /\ createdEvents = 0

\* C13: once the user has pinned a syncable tab and the loop has come to
\* rest, the canonical mapping contains the key of that tab and every open
\* window has a pinned tab under that key (stated for the runs that start
\* without legacy storage; no API call fails in a run with a user action).
C13_PinEverywhere ==
  (userAction.kind = "pin" /\ userAction.syncable /\ Quiescent
     /\ storage.old = <<>>) =>
    /\ userAction.key \in KeysOf(storage.cur)
    /\ \A w \in openWindows : PinnedUnder(w, userAction.key) # {}

\* C14: once the user has unpinned a syncable pinned tab, the unpin was
\* handled and confirmed and the loop has come to rest, the key of that tab
\* is not in the canonical mapping and no open window has a pinned tab
\* under that key (stated for the runs that start without legacy
\* storage; no API call fails in a run with a user action).
C14_UnpinEverywhere ==
  (userAction.kind = "unpin" /\ userAction.syncable /\ ~userAction.ignored
     /\ Quiescent /\ storage.old = <<>>) =>
    /\ userAction.key \notin KeysOf(storage.cur)
    /\ \A w \in openWindows : PinnedUnder(w, userAction.key) = {}

\* C15: right after a pass that ran without a failure and without a user
\* action, every open window has exactly one pinned syncable tab under each
\* canonical key and no pinned syncable tab under another key.
C15_OnePerKey ==
  (lastPass.seq = 1 /\ lastPass.clean /\ ~lastPass.failed /\ ~lastPass.mutFailed) =>
    \A w \in openWindows :
      /\ \A key \in KeysOf(lastPass.map) : Cardinality(PinnedUnder(w, key)) = 1
      /\ \A i \in PinnedSyncable(w) : TabKeyOf(windowTabs[w][i]) \in KeysOf(lastPass.map)

\* C16: at most one reconciliation pass is running at any time, and the
\* in-flight flag is set exactly while a pass is running.
C16_InFlightGuard ==
  /\ Cardinality(Passes) <= 1
  /\ reconcileInFlight <=> Passes # {}

\* a follow-up pass is running and a further request was made during it
C16_Witness ==
  /\ reconcileInFlight
  /\ \E t \in Passes : t.reason = "pending" /\ t.arrived > 0

\* C17: when a pass ends, exactly one follow-up pass has started if one or
\* more requests arrived during the pass, and no pass is running and none
\* is pending if no request arrived.
C17_PendingFollowUp ==
  lastPass.seq = 1 =>
    /\ ~reconcilePending
    /\ lastPass.arrived > 0 =>
         /\ reconcileInFlight
         /\ Cardinality(Passes) = 1
         /\ \A t \in Passes : t.reason = "pending" /\ t.pc = "get" /\ t.arrived = 0
    /\ lastPass.arrived = 0 => (Passes = {} /\ ~reconcileInFlight)

\* two or more requests arrived during the pass that ended, and one
\* follow-up pass is running
C17_Witness ==
  /\ lastPass.seq = 1
  /\ lastPass.arrived = 2
  /\ Cardinality(Passes) = 1

\* C18: at most one debounce timer is pending, it is the one that
\* reconcileTimer names, and reconcileTimer is null exactly when no timer
\* is pending.
C18_Debounce ==
  /\ Cardinality(timers) <= 1
  /\ \A tm \in timers : tm.id = reconcileTimer
  /\ timers = {} <=> reconcileTimer = 0

\* the pending timer is the last of a burst of calls and replaced a timer
\* with a shorter delay
C18_Witness ==
  \E tm \in timers :
    /\ tm.burst >= 2
    /\ tm.replaced >= 0
    /\ tm.replaced < tm.delay

\* the awaited calls of a pass outside the try/catch of a create or remove
PassLevelCalls == {"get", "migrate", "seedQuery", "seedSet", "getAll", "query"}

\* C19: when a pass ends because one of its pass-level calls threw, the
\* in-flight flag is cleared, no timer is scheduled for a retry, and no pass
\* is running unless a request arrived during the failed pass.
C19_PassFailure ==
  (lastPass.seq = 1 /\ lastPass.failed /\ lastPass.pc \in PassLevelCalls) =>
    /\ timers = lastPass.timers
    /\ ~reconcilePending
    /\ reconcileInFlight = lastPass.followUp
    /\ ~lastPass.followUp => Passes = {}

\* the query of a window's tabs threw, the loop is idle and a later
\* request is still to come
C19_Witness ==
  /\ lastPass.seq = 1
  /\ lastPass.failed
  /\ lastPass.pc = "query"
  /\ ~reconcileInFlight
  /\ Passes = {}
  /\ budget.requests > 0

\* C20: a pass in which a create or a remove failed, and no pass-level call
\* threw, has issued every create and remove it planned and has queried
\* every window it enumerated.
C20_PartialFailure ==
  (lastPass.seq = 1 /\ lastPass.mutFailed
     /\ ~(lastPass.failed /\ lastPass.pc \in PassLevelCalls)) =>
    /\ lastPass.issued = lastPass.planned
    /\ lastPass.queried = lastPass.enumerated

\* the mutation that failed was followed by another mutation of its window
\* and by another window
C20_Witness ==
  /\ lastPass.seq = 1
  /\ lastPass.mutFailed
  /\ ~lastPass.failed
  /\ lastPass.left.mutations > 0
  /\ lastPass.left.wins > 0
  /\ lastPass.issued = lastPass.planned
  /\ lastPass.queried = lastPass.enumerated

\* C21: when the pass started by a manual reconcile request fails, the
\* requester is sent a failure result.
C21_ManualFailureReported ==
  (lastPass.seq = 1 /\ lastPass.reason = "manual" /\ lastPass.failed) =>
    (lastPass.response.sent /\ ~lastPass.response.ok)

\* a tabs.onUpdated event with a pinned change is handled in this step
PinEventStep ==
  /\ budget'.events < budget.events
  /\ openWindows' = openWindows
  /\ userAction'.kind \in {"pin", "unpin"}

\* a tabs.onCreated event of a pinned tab is handled in this step
CreatedEventStep == createdEvents' < createdEvents

\* C22: a pin-state-changed event or a pinned-tab-created event handled
\* while now < suppressEventsUntil leaves the canonical mapping unchanged,
\* starts no handler that could change it and schedules no reconciliation.
C22_SuppressedEventIgnored ==
  [][(0 < suppressEventsUntil /\ (PinEventStep \/ CreatedEventStep)) =>
       /\ storage' = storage
       /\ Handlers' = Handlers
       /\ timers' = timers
       /\ reconcileTimer' = reconcileTimer]_vars

\* the user pinned a syncable tab inside the suppression window and nothing
\* was started or scheduled for it
C22_Witness ==
  /\ userAction.kind = "pin"
  /\ userAction.syncable
  /\ userAction.ignored
  /\ 0 < suppressEventsUntil
  /\ Handlers = {}
  /\ timers = {}
  /\ budget.events < MaxEvents

\* the handlers of a confirmed unpin that have passed the re-query
Confirmed == {t \in Handlers : t.kind = "confirm" /\ t.pc # "tabsGet"}

AppPinnedIn(w, entry) ==
  \E i \in PinnedSyncable(w) :
    TabKeyOf(windowTabs[w][i]) \in {entry.key, canonicalKeyForUrl(entry.url)}

\* a pass ended that ran without a failure and without a user action
CleanPassEnded ==
  lastPass.seq = 1 /\ lastPass.clean /\ ~lastPass.failed /\ ~lastPass.mutFailed

\* C24: while the user has only closed tabs and windows, no step removes a
\* key from the canonical mapping, and when a pass that started after the
\* last close ends, every open window has a pinned tab of every canonical
\* app.
C24_CloseKeepsCanonical ==
  /\ [][userAction'.closesOnly => KeysOf(storage.cur) \subseteq KeysOf(storage'.cur)]_vars
  /\ []((CleanPassEnded /\ userAction.closesOnly
           /\ userAction.kind \in {"close", "closeWindow"}) =>
          \A w \in openWindows : \A i \in 1..Len(storage.cur) :
            AppPinnedIn(w, storage.cur[i]))

\* the step stores the result of a user pin or of a confirmed unpin
UserTransitionStep ==
  \E u \in tasks' \ tasks : u.kind \in {"pin", "confirm"} /\ u.pc = "write"

\* C25: the canonical mapping changes only in a step that stores a user pin
\* or a confirmed unpin, or that seeds or migrates into a storage key that
\* has never held a mapping; no other step of a pass or of a handler adds,
\* removes or retargets an entry.
C25_CanonicalLifecycle ==
  [][storage'.cur # storage.cur => (UserTransitionStep \/ ~storage.used)]_vars

\* the pinned tabs chrome.tabs.query({pinned: true}) returns, in its order
PinnedNow == PinnedOnly(TabsOf(SortedSeq(openWindows)))

\* tab i of the pinned tabs is syncable and no earlier syncable one has its key
FirstOfKey(ts, i) ==
  /\ isSyncableUrl(getTabUrl(ts[i]))
  /\ \A j \in 1..i - 1 :
       isSyncableUrl(getTabUrl(ts[j])) => TabKeyOf(ts[j]) # TabKeyOf(ts[i])

\* the task u in the state before the step, waiting for call pc
SameTask(u, pc) == {t \in tasks : t.kind = u.kind /\ t.n = u.n /\ t.pc = pc}

\* C26: the seed computed from the pinned tabs has exactly one entry for
\* each key of a pinned syncable tab, with the normalized URL of the first
\* pinned syncable tab of that key as target, and no other entry.
C26_SeedContent ==
  [][\A u \in tasks' \ tasks :
       (u.pc = "seedQuery" /\ ~u.err /\ SameTask(u, "get") # {}) =>
         /\ \A i \in 1..Len(PinnedNow) :
              FirstOfKey(PinnedNow, i) =>
                \E j \in 1..Len(u.map) :
                  /\ u.map[j].key = TabKeyOf(PinnedNow[i])
                  /\ u.map[j].url = normalizeUrl(getTabUrl(PinnedNow[i]))
         /\ \A j \in 1..Len(u.map) :
              /\ \E i \in 1..Len(PinnedNow) :
                   FirstOfKey(PinnedNow, i) /\ TabKeyOf(PinnedNow[i]) = u.map[j].key
              /\ \A k \in 1..Len(u.map) : u.map[k].key = u.map[j].key => k = j]_vars

\* a seed was computed while two pinned tabs shared a key, the first of
\* them showing a fragment, next to a pinned tab that is not syncable
C26_Witness ==
  /\ \E t \in tasks : t.pc = "seedQuery" /\ ~t.err /\ Len(t.map) = 1
                        /\ t.map[1].url = UrlATestX
  /\ \E i \in 1..Len(PinnedNow) : ~isSyncableUrl(getTabUrl(PinnedNow[i]))
  /\ \E i \in 1..Len(PinnedNow) : getTabUrl(PinnedNow[i]) = UrlATestXHash
  /\ \E i \in 1..Len(PinnedNow) : getTabUrl(PinnedNow[i]) = UrlATestRoot

\* the task u in the state before the step
Before(u) == {t \in tasks : t.kind = u.kind /\ t.n = u.n}

\* C27: the step that stores a user pin stores the mapping the handler
\* loaded, with the entry of the tab's key as it was when the mapping had
\* the key, and with the key added under the tab's normalized URL when it
\* had not; every other entry is stored as loaded.
C27_KeepExistingPin ==
  [][\A u \in tasks' \ tasks : \A t \in Before(u) :
       (u.kind = "pin" /\ u.pc = "write" /\ ~u.err /\ t.pc # "write") =>
         LET key == TabKeyOf(u.tab)
             url == normalizeUrl(getTabUrl(u.tab))
         IN /\ \A i \in 1..Len(t.map) :
                 \E k \in 1..Len(storage'.cur) : storage'.cur[k] = t.map[i]
            /\ \A k \in 1..Len(storage'.cur) :
                 \/ \E i \in 1..Len(t.map) : storage'.cur[k] = t.map[i]
                 \/ /\ key \notin KeysOf(t.map)
                    /\ storage'.cur[k] = [key |-> key, url |-> url]
            /\ key \in KeysOf(storage'.cur)]_vars

\* a pin was stored for a tab whose URL differs from the target that its
\* key has in the canonical mapping
C27_Witness ==
  \E t \in tasks :
    /\ t.kind = "pin" /\ t.pc = "write" /\ ~t.err
    /\ \E i \in 1..Len(storage.cur) :
         /\ storage.cur[i].key = TabKeyOf(t.tab)
         /\ storage.cur[i].url # normalizeUrl(getTabUrl(t.tab))

\* C28: the legacy mapping is copied to the new storage key only by a
\* caller that read the new key empty and the old key non-empty, and only
\* while the new key has never held a mapping.
C28_MigrationOnce ==
  [][\A u \in tasks' \ tasks : \A t \in Before(u) :
       (u.pc = "migrate" /\ ~u.err /\ t.pc = "get") =>
         /\ t.map = <<>>
         /\ t.old # <<>>
         /\ ~storage.used]_vars

\* the positions of the pinned tabs of window w that show url
PinnedWithUrl(w, url) == ExistingPinnedByUrl(PinnedOnly(windowTabs[w]), url)

\* C29: in the union variant at rest, the URL of the tab the user pinned
\* last is pinned in every window, and the URL of the tab the user unpinned
\* last is pinned in no window.
C29_UnionPinUnpin ==
  (tasks = {} /\ timers = {} /\ userAction.syncable) =>
    /\ userAction.kind = "pin" =>
         \A w \in openWindows : PinnedWithUrl(w, userAction.key) # {}
    /\ userAction.kind = "unpin" =>
         \A w \in openWindows : PinnedWithUrl(w, userAction.key) = {}

(***************************************************************************)
(* Properties of normalizeUrl                                               *)
(***************************************************************************)
\* the token of class cls in the raw string, "" when it has none
ComponentOf(raw, cls) ==
  LET at == {i \in 1..Len(raw) : raw[i] \in cls}
  IN IF at = {} THEN "" ELSE raw[CHOOSE i \in at : TRUE]

\* a parseable raw string as the URL serializer writes it: the default port
\* of the scheme is left out and the empty path of an http(s) URL is "/"
Reserialized(raw) ==
  LET port == ComponentOf(raw, Ports)
      path == ComponentOf(raw, Paths)
  IN <<raw[1], raw[2]>>
       \o Opt(IF port = DefaultPort(raw[1]) THEN "" ELSE port)
       \o Opt(IF path = "" /\ raw[1] \in SpecialSchemes THEN "/" ELSE path)
       \o Opt(ComponentOf(raw, Queries))

\* normalizeUrl applied again gives the same strings
NormalizeIdempotent ==
  [][(keyState = "normalized" /\ keyState' = "normalizedTwice") =>
       (keyA' = keyA /\ keyB' = keyB)]_vars

\* two parseable inputs that differ only in their fragment have one result
FragmentOnlyDifference ==
  (keyState = "normalized" /\ Parseable(keyUrlA) /\ Parseable(keyUrlB)
     /\ WithoutFragment(keyUrlA) = WithoutFragment(keyUrlB)) => keyA = keyB

\* C30 as stated: for a parseable URL normalizeUrl gives the input with the
\* fragment removed; for an unparseable input it gives the input unchanged;
\* applying it twice is the same as applying it once; two URLs that differ
\* only in their fragment have the same result.
C30_NormalizeDropsFragmentOnly ==
  /\ [](keyState = "normalized" =>
          /\ Parseable(keyUrlA) => keyA = WithoutFragment(keyUrlA)
          /\ ~Parseable(keyUrlA) => keyA = keyUrlA)
  /\ [](FragmentOnlyDifference)
  /\ NormalizeIdempotent

\* C30 amended: for a parseable URL normalizeUrl gives the serialization of
\* the input without its fragment: scheme, host and query as written, the
\* port unless it is the default port of the scheme, and the path, "/" when
\* an http(s) URL has none; for an unparseable input it gives the input
\* unchanged; applying it twice is the same as applying it once; two
\* parseable URLs that differ only in their fragment have the same result.
C30_NormalizeReserializes ==
  /\ [](keyState = "normalized" =>
          /\ Parseable(keyUrlA) => keyA = Reserialized(keyUrlA)
          /\ ~Parseable(keyUrlA) => keyA = keyUrlA)
  /\ [](FragmentOnlyDifference)
  /\ NormalizeIdempotent

C30_Witness ==
  /\ keyState = "normalizedTwice"
  /\ Parseable(keyUrlA) /\ Parseable(keyUrlB)
  /\ keyUrlA # keyUrlB
  /\ WithoutFragment(keyUrlA) = WithoutFragment(keyUrlB)
  /\ keyA = keyB
  /\ keyA # WithoutFragment(keyUrlA)
  /\ ComponentOf(keyUrlA, Queries) # ""

(***************************************************************************)
(* Properties of isSyncableUrl                                              *)
(***************************************************************************)
\* C31: isSyncableUrl is true exactly when its input parses as an absolute
\* URL whose scheme is http or https; it is false for the empty string,
\* null, an unparseable string, chrome: and about: URLs.
C31_SyncableExactlyHttp ==
  keyState = "syncable" =>
    /\ keyA \in BOOLEAN
    /\ keyA <=> (Parseable(keyUrlA) /\ keyUrlA[1] \in {"http:", "https:"})
    /\ keyUrlA \in {EmptyString, Undefined, UrlGarbage, UrlChrome,
                     <<"about:", "blank">>} => ~keyA

C31_Witness ==
  /\ keyState = "syncable"
  /\ Parseable(keyUrlA) /\ keyUrlA[1] = "http:" /\ keyA
  /\ keyUrlB = UrlChrome /\ ~keyB

(***************************************************************************)
(* Properties of the service worker: feedback, races, flags                 *)
(***************************************************************************)
\* the pinned tabs of window w that a pass created for the URL url
CreatedFor(w, url) ==
  {i \in 1..Len(windowTabs[w]) :
     /\ windowTabs[w][i].pinned
     /\ windowTabs[w][i].url = EmptyString
     /\ windowTabs[w][i].pendingUrl = url}

\* a pass creates a tab in window w
CreateStepIn(w) ==
  /\ Len(windowTabs'[w]) = Len(windowTabs[w]) + 1
  /\ SubSeq(windowTabs'[w], 1, Len(windowTabs[w])) = windowTabs[w]

\* C32: no infinite feedback. The loop comes to rest only if it recognizes
\* the tabs it created: a pass never creates a tab for a URL in a window
\* that still holds the pinned tab an earlier mutation created for that URL
\* (else every pass mutates again, and the events of its mutations that
\* arrive after the suppression window start the next pass).
C32_NoInfiniteFeedback ==
  [][\A w \in openWindows :
       CreateStepIn(w) =>
         CreatedFor(w, windowTabs'[w][Len(windowTabs'[w])].pendingUrl) = {}]_vars

\* the entries of a mapping under the keys other than key
OtherEntries(m, key) == {m[i] : i \in {j \in 1..Len(m) : m[j].key # key}}

\* C33: a pin or unpin handler stores the mapping it loaded with its own
\* key changed, whatever the storage holds by then: the entries of every
\* other key are stored as the handler loaded them, so the change another
\* handler stored in between is overwritten. Nothing in the step reads the
\* storage again or waits for the other handler.
C33_LostUpdateRace ==
  [][\A u \in tasks' \ tasks : \A t \in Before(u) :
       (u.kind \in {"pin", "confirm"} /\ u.pc = "write" /\ ~u.err
          /\ t.pc # "write") =>
         OtherEntries(storage'.cur, TabKeyOf(u.tab))
           = OtherEntries(t.map, TabKeyOf(u.tab))]_vars

\* the user pinned one app and then unpinned another; both handlers have
\* stored their change, the unpin last from the mapping it had loaded before
\* the pin was stored: the stored mapping lacks the app that is pinned
C33_Witness ==
  \E t \in tasks :
    /\ t.kind = "confirm" /\ t.pc = "write" /\ ~t.err
    /\ t.n = 1 /\ t.tab.id = 1
    /\ Handlers = {t}
    /\ budget.events = 0
    /\ Len(windowTabs[1]) >= 2
    /\ windowTabs[1][2].id = 2 /\ windowTabs[1][2].pinned
    /\ isSyncableUrl(getTabUrl(windowTabs[1][2]))
    /\ TabKeyOf(windowTabs[1][2]) # TabKeyOf(t.tab)
    /\ TabKeyOf(windowTabs[1][2]) \notin KeysOf(storage.cur)

\* C34: a pass opens the suppression window with every create and remove it
\* issues, so the window is open (now < suppressEventsUntil) at the moment
\* the mutation is issued, with the full MUTATION_SUPPRESS_MS ahead; and
\* suppressEventsUntil is never set back: the time left shrinks only by
\* time passing, in a step that does nothing else.
C34_SuppressionPrecedesMutation ==
  [][/\ \A u \in tasks' \ tasks : \A t \in Before(u) :
          (u.kind = "pass" /\ u.issued = t.issued + 1) =>
            /\ u.pc \in {"create", "remove"}
            /\ 0 < suppressEventsUntil'
            /\ suppressEventsUntil' = MUTATION_SUPPRESS_MS
     /\ windowTabs' # windowTabs =>
           \/ 0 < suppressEventsUntil'
           \/ budget'.events < budget.events
     /\ suppressEventsUntil' < suppressEventsUntil =>
           (tasks' = tasks /\ windowTabs' = windowTabs /\ storage' = storage
              /\ timers' = timers)]_vars

\* a pass has issued a create and then a remove
C34_Witness ==
  \E t \in Passes :
    /\ t.pc = "remove" /\ ~t.mutFailed /\ t.issued >= 2
    /\ suppressEventsUntil = MUTATION_SUPPRESS_MS

\* C35: in every state between two asynchronous steps reconcilePending is
\* true only while reconcileInFlight is true: the loop is never idle with
\* a recorded follow-up request that no pass will serve.
C35_PendingImpliesInFlight ==
  /\ reconcilePending => reconcileInFlight
  /\ reconcileInFlight <=> Passes # {}

\* a request was recorded while a pass was between two mutations
C35_Witness ==
  /\ reconcilePending /\ reconcileInFlight
  /\ \E t \in Passes : t.arrived >= 1 /\ t.pc = "create" /\ t.remove # <<>>

\* C36: for each entry (key, url) of the canonical mapping, url is a
\* syncable normalized URL and canonicalKeyForUrl(url) = key.
C36_CanonicalKeyConsistency ==
  \A i \in 1..Len(storage.cur) :
    /\ isSyncableUrl(storage.cur[i].url)
    /\ normalizeUrl(storage.cur[i].url) = storage.cur[i].url
    /\ canonicalKeyForUrl(storage.cur[i].url) = storage.cur[i].key

(***************************************************************************)
(* Properties of the scheduling of passes                                   *)
(***************************************************************************)
\* the debounce timer fires
TimerFireStep == timers' # timers /\ timers' \subseteq timers

\* a pass starts
PassStartStep ==
  /\ reconcileInFlight'
  /\ \E u \in tasks' \ tasks : u.kind = "pass" /\ u.pc = "get" /\ u.arrived = 0

\* a trigger is served: when its timer fires a pass starts, or a pass is
\* in flight and records the request, and the pass that ends with a
\* recorded request starts the follow-up pass in the same step
TriggerServed ==
  /\ TimerFireStep =>
        \/ ~reconcileInFlight /\ PassStartStep
        \/ reconcileInFlight /\ reconcileInFlight' /\ reconcilePending'
  /\ (lastPass'.seq = 1 /\ reconcilePending) =>
        (PassStartStep /\ ~reconcilePending')

\* C37 as stated: no trigger is lost. After a call of scheduleReconcile its
\* timer is pending; when the timer fires a full pass starts, or the
\* request is recorded and a full pass starts when the pass in flight ends.
C37_NoLostTrigger == [][TriggerServed]_vars

\* C37 amended: no trigger is lost in the build with the pending flag. In
\* the variant without the flag a trigger is served when its timer fires
\* while no pass is in flight, and is lost when it fires during a pass.
C37_NoLostTriggerPending ==
  [][/\ ~DropBuild => TriggerServed
     /\ (DropBuild /\ TimerFireStep) =>
           IF reconcileInFlight
           THEN /\ ~reconcilePending'
                /\ ~PassStartStep
           ELSE PassStartStep]_vars

\* a timer fired during a pass and the pass has ended: the follow-up pass
\* has started
C37_Witness ==
  /\ ~DropBuild
  /\ lastPass.seq = 1 /\ lastPass.followUp /\ lastPass.arrived >= 1
  /\ reconcileInFlight /\ ~reconcilePending
  /\ \E t \in Passes : t.pc = "get" /\ t.reason = "pending"

(***************************************************************************)
(* Properties of the manual reconcile request                               *)
(***************************************************************************)
\* C38: a success response to a manual reconcile request is sent only when
\* a pass that the request started has ended, also when the request
\* arrives while another pass is in flight.
C38_ManualResponseAfterPass ==
  (lastPass.response.sent /\ lastPass.response.ok) =>
    (lastPass.seq = 1 /\ lastPass.reason = "manual")

====
